---------------------------- MODULE Spec2Model ----------------------------
(***************************************************************************)
(* Model of the metadata extractor: the App component (handleFileSelect,   *)
(* handleReset and the React state they write) and the extraction engine   *)
(* MetadataExtractor.extractMetadata with its per-format extractors and    *)
(* universal analyzers.                                                    *)
(*                                                                         *)
(* Conventions.                                                            *)
(*  - A JavaScript string that the code takes apart (file name, MIME type, *)
(*    hex output) is a sequence of one-character strings; a label that is  *)
(*    only stored (encoding, language) is a string.                        *)
(*  - A file's content is a sequence of bytes 0..255; text decoded from it *)
(*    is a sequence of UTF-16 code units (integers).                       *)
(*  - An ExtendedMetadata object is a function on the names of the fields  *)
(*    that were assigned; an optional value is <<>> or <<value>>.          *)
(*  - Numbers the code rounds to two decimals (entropy, compressionRatio,  *)
(*    processingTime) are kept in hundredths, as integers.                 *)
(***************************************************************************)
EXTENDS Integers, Sequences, FiniteSets, TLC

Min(a, b) == IF a <= b THEN a ELSE b

\* Math.round of the non-negative quotient num / den (halves round up).
RoundDiv(num, den) == (num \div den) + (IF 2 * (num % den) >= den THEN 1 ELSE 0)

(***************************************************************************)
(* String primitives of the JavaScript runtime, on sequences.              *)
(***************************************************************************)
StartsWith(s, p) == Len(s) >= Len(p) /\ SubSeq(s, 1, Len(p)) = p

EndsWith(s, p) == Len(s) >= Len(p) /\ SubSeq(s, Len(s) - Len(p) + 1, Len(s)) = p

MatchAt(s, p, i) == i + Len(p) - 1 <= Len(s) /\ SubSeq(s, i, i + Len(p) - 1) = p

Includes(s, p) == \E i \in 1..(Len(s) + 1) : MatchAt(s, p, i)

\* Position of the last occurrence of the element c in s, 0 when there is none.
LastIndexOf(s, c) ==
    LET hits == {i \in 1..Len(s) : s[i] = c}
    IN  IF hits = {} THEN 0 ELSE CHOOSE i \in hits : \A j \in hits : j <= i

Upper == <<"A", "B", "C", "D", "E", "F", "G", "H", "I", "J", "K", "L", "M",
           "N", "O", "P", "Q", "R", "S", "T", "U", "V", "W", "X", "Y", "Z">>

Lower == <<"a", "b", "c", "d", "e", "f", "g", "h", "i", "j", "k", "l", "m",
           "n", "o", "p", "q", "r", "s", "t", "u", "v", "w", "x", "y", "z">>

LowerChar(c) ==
    IF \E i \in 1..26 : Upper[i] = c
    THEN Lower[CHOOSE i \in 1..26 : Upper[i] = c]
    ELSE c

ToLowerCase(s) == [i \in 1..Len(s) |-> LowerChar(s[i])]

HexDigits == <<"0", "1", "2", "3", "4", "5", "6", "7",
               "8", "9", "a", "b", "c", "d", "e", "f">>

\* byte.toString(16).padStart(2, '0')
HexByte(b) == <<HexDigits[(b \div 16) + 1], HexDigits[(b % 16) + 1]>>

UpperChar(c) ==
    IF \E i \in 1..26 : Lower[i] = c
    THEN Upper[CHOOSE i \in 1..26 : Lower[i] = c]
    ELSE c

ToUpperCase(s) == [i \in 1..Len(s) |-> UpperChar(s[i])]

RECURSIVE JoinWith(_, _)
\* Array.prototype.join: the parts separated by sep.
JoinWith(parts, sep) ==
    IF parts = <<>> THEN <<>>
    ELSE IF Len(parts) = 1 THEN parts[1]
    ELSE LET half == Len(parts) \div 2
         IN  JoinWith(SubSeq(parts, 1, half), sep) \o sep
             \o JoinWith(SubSeq(parts, half + 1, Len(parts)), sep)

Digits == <<"0", "1", "2", "3", "4", "5", "6", "7", "8", "9">>

RECURSIVE NumberToString(_)
\* Template-literal rendering of a non-negative integer.
NumberToString(n) ==
    IF n < 10 THEN <<Digits[n + 1]>>
    ELSE NumberToString(n \div 10) \o <<Digits[(n % 10) + 1]>>

(***************************************************************************)
(* Byte buffers: Blob.slice, DataView reads, TextDecoder.                  *)
(***************************************************************************)
\* Blob.slice(0, n): the first n bytes, fewer when the blob is shorter.
Prefix(bytes, n) == SubSeq(bytes, 1, Min(Len(bytes), n))

\* DataView: a read of n bytes at offset (counted from 0) throws a RangeError
\* unless all of them are inside the buffer.
ThrowsRangeError(bytes, offset, n) == offset + n > Len(bytes)

\* DataView.getUint32(offset, true): little-endian.
getUint32(bytes, offset) ==
    bytes[offset + 1] + 256 * bytes[offset + 2]
    + 65536 * bytes[offset + 3] + 16777216 * bytes[offset + 4]

\* DataView.getUint16(offset, true).
getUint16(bytes, offset) == bytes[offset + 1] + 256 * bytes[offset + 2]

ReplacementChar == 65533

IsCont(bytes, i, lo, hi) == i <= Len(bytes) /\ bytes[i] >= lo /\ bytes[i] <= hi

\* The code units of the code point cp (a surrogate pair above U+FFFF).
CodeUnits(cp) ==
    IF cp < 65536 THEN <<cp>>
    ELSE <<55296 + ((cp - 65536) \div 1024), 56320 + ((cp - 65536) % 1024)>>

RECURSIVE Utf8From(_, _)
\* The UTF-8 decoder of Blob.text(), from byte i on: an ill-formed sequence
\* gives one U+FFFD for its longest well-formed prefix.  A run of ASCII
\* bytes is taken in one piece.
Utf8From(bytes, i) ==
    IF i > Len(bytes) THEN <<>>
    ELSE LET b == bytes[i] IN
      IF b < 128
      THEN LET others == {j \in i..Len(bytes) : bytes[j] >= 128}
               next == IF others = {} THEN Len(bytes) + 1
                       ELSE CHOOSE j \in others : \A k \in others : j <= k
           IN  SubSeq(bytes, i, next - 1) \o Utf8From(bytes, next)
      ELSE IF b >= 194 /\ b <= 223 THEN
        IF IsCont(bytes, i + 1, 128, 191)
        THEN <<(b - 192) * 64 + (bytes[i + 1] - 128)>> \o Utf8From(bytes, i + 2)
        ELSE <<ReplacementChar>> \o Utf8From(bytes, i + 1)
      ELSE IF b >= 224 /\ b <= 239 THEN
        LET lo == IF b = 224 THEN 160 ELSE 128
            hi == IF b = 237 THEN 159 ELSE 191
        IN  IF ~IsCont(bytes, i + 1, lo, hi)
            THEN <<ReplacementChar>> \o Utf8From(bytes, i + 1)
            ELSE IF ~IsCont(bytes, i + 2, 128, 191)
            THEN <<ReplacementChar>> \o Utf8From(bytes, i + 2)
            ELSE <<(b - 224) * 4096 + (bytes[i + 1] - 128) * 64 + (bytes[i + 2] - 128)>>
                 \o Utf8From(bytes, i + 3)
      ELSE IF b >= 240 /\ b <= 244 THEN
        LET lo == IF b = 240 THEN 144 ELSE 128
            hi == IF b = 244 THEN 143 ELSE 191
        IN  IF ~IsCont(bytes, i + 1, lo, hi)
            THEN <<ReplacementChar>> \o Utf8From(bytes, i + 1)
            ELSE IF ~IsCont(bytes, i + 2, 128, 191)
            THEN <<ReplacementChar>> \o Utf8From(bytes, i + 2)
            ELSE IF ~IsCont(bytes, i + 3, 128, 191)
            THEN <<ReplacementChar>> \o Utf8From(bytes, i + 3)
            ELSE CodeUnits((b - 240) * 262144 + (bytes[i + 1] - 128) * 4096
                           + (bytes[i + 2] - 128) * 64 + (bytes[i + 3] - 128))
                 \o Utf8From(bytes, i + 4)
      ELSE <<ReplacementChar>> \o Utf8From(bytes, i + 1)

\* Blob.text(): UTF-8 decode, a leading byte order mark dropped.
Utf8Decode(bytes) ==
    IF Len(bytes) >= 3 /\ SubSeq(bytes, 1, 3) = <<239, 187, 191>>
    THEN Utf8From(bytes, 4)
    ELSE Utf8From(bytes, 1)

\* The windows-1252 code points of the bytes 0x80..0x9F.
W1252 ==
    <<8364, 129, 8218, 402, 8222, 8230, 8224, 8225, 710, 8240, 352, 8249, 338,
      141, 381, 143, 144, 8216, 8217, 8220, 8221, 8226, 8211, 8212, 732, 8482,
      353, 8250, 339, 157, 382, 376>>

\* new TextDecoder('latin1').decode: the label names windows-1252, one code
\* unit per byte.
Latin1Decode(bytes) ==
    [i \in 1..Len(bytes) |->
        IF bytes[i] >= 128 /\ bytes[i] <= 159 THEN W1252[bytes[i] - 127] ELSE bytes[i]]

(***************************************************************************)
(* Regular-expression character classes.                                   *)
(***************************************************************************)
\* \s
IsSpace(c) ==
    \/ c \in {9, 10, 11, 12, 13, 32, 160, 5760, 8232, 8233, 8239, 8287, 12288, 65279}
    \/ (c >= 8192 /\ c <= 8202)

\* \w, which backs \b
IsWordChar(c) ==
    \/ (c >= 48 /\ c <= 57)
    \/ (c >= 65 /\ c <= 90)
    \/ (c >= 97 /\ c <= 122)
    \/ c = 95

\* The number of maximal runs of non-whitespace: split(/\s+/) with the empty
\* tokens filtered out.
CountWords(text) ==
    Cardinality({i \in 1..Len(text) :
                    /\ ~IsSpace(text[i])
                    /\ (i = 1 \/ IsSpace(text[i - 1]))})

\* split('\n').length
CountLines(text) == Cardinality({i \in 1..Len(text) : text[i] = 10}) + 1

\* First position >= i that holds no whitespace (Len + 1 when none).
SkipSpace(text, i) ==
    LET rest == {j \in i..Len(text) : ~IsSpace(text[j])}
    IN  IF rest = {} THEN Len(text) + 1 ELSE CHOOSE j \in rest : \A k \in rest : j <= k

\* First position >= i that holds c (0 when none).
IndexFrom(text, c, i) ==
    LET hits == {j \in i..Len(text) : text[j] = c}
    IN  IF hits = {} THEN 0 ELSE CHOOSE j \in hits : \A k \in hits : j <= k

\* String.prototype.trim
Trim(text) ==
    LET keep == {i \in 1..Len(text) : ~IsSpace(text[i])}
    IN  IF keep = {} THEN <<>>
        ELSE SubSeq(text, CHOOSE i \in keep : \A k \in keep : i <= k,
                          CHOOSE i \in keep : \A k \in keep : k <= i)

RECURSIVE SplitOn(_, _)
\* String.prototype.split on the one-character separator c.
SplitOn(text, c) ==
    LET p == IndexFrom(text, c, 1)
    IN  IF p = 0 THEN <<text>>
        ELSE <<SubSeq(text, 1, p - 1)>> \o SplitOn(SubSeq(text, p + 1, Len(text)), c)

(***************************************************************************)
(* Text heuristics (metadataExtractor.ts, detectEncoding, detectLanguage). *)
(***************************************************************************)
detectEncoding(text) ==
    IF \E i \in 1..Len(text) : text[i] = ReplacementChar THEN "Binary/Unknown"
    ELSE IF \E i \in 1..Len(text) : text[i] >= 128 THEN "UTF-8"
    ELSE IF \A i \in 1..Len(text) : text[i] <= 127 THEN "ASCII"
    ELSE "UTF-8"

\* String.prototype.toLowerCase on the Basic Latin and Latin-1 letters, the
\* only ones the stop-word tables hold.
LowerUnit(c) ==
    IF c >= 65 /\ c <= 90 THEN c + 32
    ELSE IF c >= 192 /\ c <= 222 /\ c # 215 THEN c + 32
    ELSE c

LanguageSampleLength == 1000

\* text.toLowerCase().substring(0, 1000)
LanguageSample(text) ==
    LET low == [i \in 1..Len(text) |-> LowerUnit(text[i])]
    IN  SubSeq(low, 1, Min(Len(low), LanguageSampleLength))

\* the|and|or|but|in|on|at|to|for|of|with|by|this|that|have|has|will|would|could|should
EnglishWords ==
    <<<<116, 104, 101>>, <<97, 110, 100>>, <<111, 114>>, <<98, 117, 116>>,
      <<105, 110>>, <<111, 110>>, <<97, 116>>, <<116, 111>>, <<102, 111, 114>>,
      <<111, 102>>, <<119, 105, 116, 104>>, <<98, 121>>, <<116, 104, 105, 115>>,
      <<116, 104, 97, 116>>, <<104, 97, 118, 101>>, <<104, 97, 115>>,
      <<119, 105, 108, 108>>, <<119, 111, 117, 108, 100>>,
      <<99, 111, 117, 108, 100>>, <<115, 104, 111, 117, 108, 100>>>>

\* le|la|les|de|du|des|et|ou|mais|dans|sur|pour|avec|ce|cette|avoir|être|sera|serait
FrenchWords ==
    <<<<108, 101>>, <<108, 97>>, <<108, 101, 115>>, <<100, 101>>, <<100, 117>>,
      <<100, 101, 115>>, <<101, 116>>, <<111, 117>>, <<109, 97, 105, 115>>,
      <<100, 97, 110, 115>>, <<115, 117, 114>>, <<112, 111, 117, 114>>,
      <<97, 118, 101, 99>>, <<99, 101>>, <<99, 101, 116, 116, 101>>,
      <<97, 118, 111, 105, 114>>, <<234, 116, 114, 101>>, <<115, 101, 114, 97>>,
      <<115, 101, 114, 97, 105, 116>>>>

\* der|die|das|und|oder|aber|in|auf|zu|für|mit|von|haben|sein|wird|würde|könnte|sollte
GermanWords ==
    <<<<100, 101, 114>>, <<100, 105, 101>>, <<100, 97, 115>>, <<117, 110, 100>>,
      <<111, 100, 101, 114>>, <<97, 98, 101, 114>>, <<105, 110>>, <<97, 117, 102>>,
      <<122, 117>>, <<102, 252, 114>>, <<109, 105, 116>>, <<118, 111, 110>>,
      <<104, 97, 98, 101, 110>>, <<115, 101, 105, 110>>, <<119, 105, 114, 100>>,
      <<119, 252, 114, 100, 101>>, <<107, 246, 110, 110, 116, 101>>,
      <<115, 111, 108, 108, 116, 101>>>>

\* el|la|los|las|de|del|y|o|pero|en|sobre|para|con|este|esta|tener|ser|será|sería
SpanishWords ==
    <<<<101, 108>>, <<108, 97>>, <<108, 111, 115>>, <<108, 97, 115>>, <<100, 101>>,
      <<100, 101, 108>>, <<121>>, <<111>>, <<112, 101, 114, 111>>, <<101, 110>>,
      <<115, 111, 98, 114, 101>>, <<112, 97, 114, 97>>, <<99, 111, 110>>,
      <<101, 115, 116, 101>>, <<101, 115, 116, 97>>, <<116, 101, 110, 101, 114>>,
      <<115, 101, 114>>, <<115, 101, 114, 225>>, <<115, 101, 114, 237, 97>>>>

\* il|la|lo|gli|le|di|del|e|o|ma|in|su|per|con|questo|questa|avere|essere|sarà
ItalianWords ==
    <<<<105, 108>>, <<108, 97>>, <<108, 111>>, <<103, 108, 105>>, <<108, 101>>,
      <<100, 105>>, <<100, 101, 108>>, <<101>>, <<111>>, <<109, 97>>, <<105, 110>>,
      <<115, 117>>, <<112, 101, 114>>, <<99, 111, 110>>,
      <<113, 117, 101, 115, 116, 111>>, <<113, 117, 101, 115, 116, 97>>,
      <<97, 118, 101, 114, 101>>, <<101, 115, 115, 101, 114, 101>>,
      <<115, 97, 114, 224>>>>

\* The patterns object, in its insertion order (Object.entries).
LanguagePatterns ==
    <<[language |-> "English", words |-> EnglishWords],
      [language |-> "French", words |-> FrenchWords],
      [language |-> "German", words |-> GermanWords],
      [language |-> "Spanish", words |-> SpanishWords],
      [language |-> "Italian", words |-> ItalianWords]>>

\* \b holds before position i (between s[i-1] and s[i]) when exactly one of
\* the two neighbours is a word character; a missing neighbour is none.
WordBoundary(s, i) ==
    LET before == i > 1 /\ i - 1 <= Len(s) /\ IsWordChar(s[i - 1])
        after == i >= 1 /\ i <= Len(s) /\ IsWordChar(s[i])
    IN  before # after

\* The length matched at position i by \b(w1|w2|...)\b, the alternatives tried
\* in order; 0 when none matches.
StopWordAt(s, words, i) ==
    LET ok == {k \in 1..Len(words) :
                  /\ WordBoundary(s, i)
                  /\ MatchAt(s, words[k], i)
                  /\ WordBoundary(s, i + Len(words[k]))}
    IN  IF ok = {} THEN 0
        ELSE Len(words[CHOOSE k \in ok : \A j \in ok : k <= j])

RECURSIVE CountStopWords(_, _, _)
\* (sample.match(pattern) || []).length with a global pattern: the matches
\* found left to right, each search resuming after the last match.
CountStopWords(s, words, i) ==
    LET hits == {j \in i..Len(s) : StopWordAt(s, words, j) > 0}
    IN  IF hits = {} THEN 0
        ELSE LET first == CHOOSE j \in hits : \A k \in hits : j <= k
             IN  1 + CountStopWords(s, words, first + StopWordAt(s, words, first))

LanguageThreshold == 3

RECURSIVE LanguageLoop(_, _, _, _)
\* The for loop over the patterns: a language replaces the running best only
\* with strictly more matches.
LanguageLoop(sample, k, maxMatches, detectedLanguage) ==
    IF k > Len(LanguagePatterns)
    THEN IF maxMatches > LanguageThreshold THEN detectedLanguage ELSE "Unknown"
    ELSE LET matches == CountStopWords(sample, LanguagePatterns[k].words, 1)
         IN  IF matches > maxMatches
             THEN LanguageLoop(sample, k + 1, matches, LanguagePatterns[k].language)
             ELSE LanguageLoop(sample, k + 1, maxMatches, detectedLanguage)

detectLanguage(text) == LanguageLoop(LanguageSample(text), 1, 0, "Unknown")

(***************************************************************************)
(* PDF structural scan (extractPDFMetadata).                               *)
(***************************************************************************)
P_Info == <<47, 73, 110, 102, 111>>
P_Open == <<60, 60>>
P_Close == <<62, 62>>
P_Title == <<47, 84, 105, 116, 108, 101>>
P_Author == <<47, 65, 117, 116, 104, 111, 114>>
P_Keywords == <<47, 75, 101, 121, 119, 111, 114, 100, 115>>
P_Type == <<47, 84, 121, 112, 101>>
P_Page == <<47, 80, 97, 103, 101>>
P_Metadata == <<47, 77, 101, 116, 97, 100, 97, 116, 97>>

\* A match result: NoMatch (null), or <<capture>>.
NoMatch == <<>>

\* The capture of  key \s* open ([^close]*) closeSeq  anchored at position i,
\* NoMatch when the pattern does not match there.  [^close]* runs to the
\* first close character, which must start closeSeq.
CaptureAt(text, key, open, close, closeSeq, i) ==
    IF ~MatchAt(text, key, i) THEN NoMatch
    ELSE LET j == SkipSpace(text, i + Len(key))
         IN  IF ~MatchAt(text, open, j) THEN NoMatch
             ELSE LET k == j + Len(open)
                      e == IndexFrom(text, close, k)
                  IN  IF e = 0 \/ ~MatchAt(text, closeSeq, e) THEN NoMatch
                      ELSE <<SubSeq(text, k, e - 1)>>

\* String.prototype.match without the g flag: the leftmost match.
FirstCapture(text, key, open, close, closeSeq) ==
    LET hits == {i \in 1..Len(text) :
                    CaptureAt(text, key, open, close, closeSeq, i) # NoMatch}
    IN  IF hits = {} THEN NoMatch
        ELSE CaptureAt(text, key, open, close, closeSeq,
                       CHOOSE i \in hits : \A j \in hits : i <= j)

\* text.match(/\/Info\s*<<([^>]*)>>/)
InfoMatch(text) == FirstCapture(text, P_Info, P_Open, 62, P_Close)

\* info.match(/\/Title\s*\(([^)]*)\)/) and its siblings
ParenMatch(info, key) == FirstCapture(info, key, <<40>>, 41, <<41>>)

\* The end (exclusive) of a match of /\/Type\s*\/Page[^s]/ at position i,
\* 0 when there is none.
PageMarkerAt(text, i) ==
    IF ~MatchAt(text, P_Type, i) THEN 0
    ELSE LET j == SkipSpace(text, i + Len(P_Type))
         IN  IF MatchAt(text, P_Page, j)
                /\ j + Len(P_Page) <= Len(text)
                /\ text[j + Len(P_Page)] # 115
             THEN j + Len(P_Page) + 1
             ELSE 0

RECURSIVE CountPageMarkers(_, _)
\* text.match(/\/Type\s*\/Page[^s]/g): the number of matches, 0 for null.
CountPageMarkers(text, i) ==
    LET hits == {j \in i..Len(text) : PageMarkerAt(text, j) > 0}
    IN  IF hits = {} THEN 0
        ELSE LET first == CHOOSE j \in hits : \A k \in hits : j <= k
             IN  1 + CountPageMarkers(text, PageMarkerAt(text, first))

\* replace(/\s+/g, ' '): of every run of whitespace one space is kept.
CollapseSpaces(text) ==
    LET marked == [i \in 1..Len(text) |->
                      [unit |-> IF IsSpace(text[i]) THEN 32 ELSE text[i],
                       drop |-> /\ IsSpace(text[i])
                                /\ i < Len(text)
                                /\ IsSpace(text[i + 1])]]
        kept == SelectSeq(marked, LAMBDA m : ~m.drop)
    IN  [i \in 1..Len(kept) |-> kept[i].unit]

\* text.replace(/[^\x20-\x7E]/g, ' ').replace(/\s+/g, ' ')
PdfTextContent(text) ==
    CollapseSpaces([i \in 1..Len(text) |->
                      IF text[i] >= 32 /\ text[i] <= 126 THEN text[i] ELSE 32])

(***************************************************************************)
(* ZIP local file headers (extractArchiveMetadata).                        *)
(***************************************************************************)
ZipMagic == 67324752

ZipHeaderSize == 30

RECURSIVE ZipWalk(_, _, _)
\* The while loop: the total of the uncompressed sizes of the headers visited
\* from offset on.
ZipWalk(bytes, offset, uncompressedSize) ==
    IF ~(offset < Len(bytes) - ZipHeaderSize) THEN uncompressedSize
    ELSE IF getUint32(bytes, offset) # ZipMagic THEN uncompressedSize
    ELSE ZipWalk(bytes,
                 offset + ZipHeaderSize + getUint16(bytes, offset + 26)
                   + getUint16(bytes, offset + 28) + getUint32(bytes, offset + 18),
                 uncompressedSize + getUint32(bytes, offset + 22))

(***************************************************************************)
(* Images.                                                                 *)
(***************************************************************************)
RECURSIVE gcd(_, _)
gcd(a, b) == IF b = 0 THEN a ELSE gcd(b, a % b)

\* calculateAspectRatio as it would be without the division by the divisor.
calculateAspectRatioUnreduced(width, height) ==
    NumberToString(width) \o <<":">> \o NumberToString(height)

\* `${width / divisor}:${height / divisor}`
calculateAspectRatio(width, height) ==
    LET divisor == gcd(width, height)
    IN  NumberToString(width \div divisor) \o <<":">> \o NumberToString(height \div divisor)

PixelSampleCap == 100

\* A pixel is <<r, g, b, a>>.
hasAlphaChannel(pixels) == \E i \in 1..Len(pixels) : pixels[i][4] < 255

\* (data[i] << 16) | (data[i + 1] << 8) | data[i + 2]
PixelColor(px) == px[1] * 65536 + px[2] * 256 + px[3]

ColorShortCircuit == 65536

estimateColorDepth(pixels) ==
    LET uniqueColors == Cardinality({PixelColor(pixels[i]) : i \in 1..Len(pixels)})
    IN  IF uniqueColors > ColorShortCircuit THEN 24
        ELSE IF uniqueColors <= 2 THEN 1
        ELSE IF uniqueColors <= 16 THEN 4
        ELSE IF uniqueColors <= 256 THEN 8
        ELSE IF uniqueColors <= 65536 THEN 16
        ELSE 24

(***************************************************************************)
(* Universal analyzers.                                                    *)
(***************************************************************************)
\* Array.from(bytes).map(byte => hex2(byte)).join(' ').toUpperCase()
SignatureString(bytes) ==
    ToUpperCase(JoinWith([i \in 1..Len(bytes) |-> HexByte(bytes[i])], <<" ">>))

SignatureLength == 16

\* crypto.subtle.digest(algorithm, buffer): the digest is a value fixed by the
\* algorithm and the bytes, different for different algorithms or bytes.
subtleDigest(algorithm, bytes) == [algorithm |-> algorithm, input |-> bytes]

\* hashArray.map(b => hex2(b)).join(''): the hex characters of the digest,
\* kept together as one token, so that '' is the empty sequence.
DigestHex(hashBuffer) == <<hashBuffer>>

\* The branch on the algorithm label inside calculateChecksum.
ChecksumAlgorithm(algorithm) == IF algorithm = "MD5" THEN "SHA-1" ELSE algorithm

\* round(10^6 * k * log2(k)) for k = 1..256, standing for Math.log2.
KLog2K ==
    <<0, 2000000, 4754888, 8000000, 11609640, 15509775, 19651484, 24000000,
      28529325, 33219281, 38053748, 43019550, 48105716, 53302969, 58603359, 64000000,
      69486868, 75058650, 80710623, 86438562, 92238666, 98107496, 104041925, 110039100,
      116096405, 122211433, 128381963, 134605938, 140881449, 147206718, 153580086, 160000000,
      166465006, 172973737, 179524906, 186117300, 192749775, 199421246, 206130687, 212877124,
      219659632, 226477332, 233329384, 240214991, 247133389, 254083850, 261065676, 268078200,
      275120782, 282192809, 289293692, 296422865, 303579784, 310763925, 317974784, 325211876,
      332474731, 339762898, 347075940, 354413436, 361774978, 369160171, 376568635, 384000000,
      391453908, 398930012, 406427976, 413947473, 421488188, 429049811, 436632045, 444234600,
      451857193, 459499549, 467161402, 474842491, 482542564, 490261373, 497998679, 505754248,
      513527850, 521319264, 529128273, 536954664, 544798230, 552658769, 560536084, 568429982,
      576340275, 584266779, 592209312, 600167700, 608141769, 616131352, 624136283, 632156400,
      640191546, 648241565, 656306305, 664385619, 672479360, 680587385, 688709554, 696845731,
      704995779, 713159568, 721336968, 729527850, 737732091, 745949568, 754180161, 762423751,
      770680223, 778949462, 787231356, 795525795, 803832672, 812151880, 820483314, 828826871,
      837182452, 845549955, 853929284, 862320342, 870723036, 879137270, 887562955, 896000000,
      904448316, 912907816, 921378413, 929860024, 938352564, 946855952, 955370106, 963894946,
      972430395, 980976375, 989532809, 998099622, 1006676741, 1015264091, 1023861601, 1032469200,
      1041086818, 1049714386, 1058351835, 1066999098, 1075656110, 1084322804, 1092999116, 1101684982,
      1110380340, 1119085127, 1127799283, 1136522746, 1145255458, 1153997358, 1162748390, 1171508495,
      1180277617, 1189055700, 1197842689, 1206638529, 1215443165, 1224256546, 1233078617, 1241909327,
      1250748625, 1259596459, 1268452780, 1277317538, 1286190683, 1295072168, 1303961945, 1312859965,
      1321766182, 1330680551, 1339603024, 1348533557, 1357472106, 1366418625, 1375373070, 1384335400,
      1393305570, 1402283539, 1411269264, 1420262704, 1429263818, 1438272566, 1447288906, 1456312800,
      1465344208, 1474383091, 1483429411, 1492483129, 1501544208, 1510612611, 1519688299, 1528771238,
      1537861390, 1546958720, 1556063191, 1565174770, 1574293420, 1583419109, 1592551800, 1601691461,
      1610838059, 1619991559, 1629151929, 1638319136, 1647493149, 1656673935, 1665861463, 1675055700,
      1684256617, 1693464183, 1702678366, 1711899137, 1721126466, 1730360322, 1739600678, 1748847503,
      1758100768, 1767360446, 1776626507, 1785898923, 1795177667, 1804462712, 1813754029, 1823051591,
      1832355372, 1841665344, 1850981482, 1860303760, 1869632150, 1878966628, 1888307167, 1897653743,
      1907006330, 1916364903, 1925729438, 1935099910, 1944476295, 1953858568, 1963246706, 1972640685,
      1982040481, 1991446071, 2000857432, 2010274541, 2019697374, 2029125910, 2038560126, 2048000000>>

\* The bytes of a blob as runs of equal bytes, <<[byte |-> b, count |-> n],
\* ...>> with n >= 1, so that a blob of a megabyte and more can be written
\* down; a blob given byte by byte has one run for each byte.
RunsOf(bytes) == [i \in 1..Len(bytes) |-> [byte |-> bytes[i], count |-> 1]] \o <<>>

RECURSIVE CountRuns(_, _, _, _)
\* How many bytes of the runs lo..hi have a value in values.
CountRuns(data, lo, hi, values) ==
    IF lo > hi THEN 0
    ELSE IF lo = hi THEN IF data[lo].byte \in values THEN data[lo].count ELSE 0
    ELSE LET mid == (lo + hi) \div 2
         IN  CountRuns(data, lo, mid, values) + CountRuns(data, mid + 1, hi, values)

\* Blob.size, ArrayBuffer.byteLength
ByteLength(data) == CountRuns(data, 1, Len(data), 0..255)

\* Blob.slice(0, n): the runs that start before n, the last one cut at n.
SliceRuns(data, n) ==
    IF n >= ByteLength(data) THEN data
    ELSE LET start(i) == CountRuns(data, 1, i - 1, 0..255)
             kept == {i \in 1..Len(data) : start(i) < n}
         IN  [i \in 1..Cardinality(kept) |->
                 [byte |-> data[i].byte,
                  count |-> Min(data[i].count, n - start(i))]] \o <<>>

RECURSIVE BytesOfRuns(_, _, _)
\* The bytes of the runs lo..hi one by one.
BytesOfRuns(data, lo, hi) ==
    IF lo > hi THEN <<>>
    ELSE IF lo = hi THEN [k \in 1..data[lo].count |-> data[lo].byte] \o <<>>
    ELSE LET mid == (lo + hi) \div 2
         IN  BytesOfRuns(data, lo, mid) \o BytesOfRuns(data, mid + 1, hi)

\* new Uint8Array(buffer)
BytesOf(data) == BytesOfRuns(data, 1, Len(data))

\* frequency[v]: how often the byte v occurs in the sample.
Frequency(sample, v) ==
    LET hits == SelectSeq(sample, LAMBDA run : run.byte = v)
    IN  CountRuns(hits, 1, Len(hits), {v})

RECURSIVE CommonDivisor(_, _, _)
\* The greatest number that divides all of frequency[lo..hi] (0 when all are
\* 0): freq / length is the same fraction with both divided by it.
CommonDivisor(frequency, lo, hi) ==
    IF lo = hi THEN frequency[lo]
    ELSE LET mid == (lo + hi) \div 2
         IN  gcd(CommonDivisor(frequency, lo, mid), CommonDivisor(frequency, mid + 1, hi))

RECURSIVE SumKLog2K(_, _, _)
\* The sum of freq * log2(freq) over the byte values lo..hi that occur: the
\* loop over the 256 counters, by halves.
SumKLog2K(frequency, lo, hi) ==
    IF lo = hi
    THEN IF frequency[lo] > 0 THEN KLog2K[frequency[lo]] ELSE 0
    ELSE LET mid == (lo + hi) \div 2
         IN  SumKLog2K(frequency, lo, mid) + SumKLog2K(frequency, mid + 1, hi)

\* Math.round(entropy * 100), entropy = - sum p * log2(p) over the byte values
\* that occur, p = freq / length; in closed form
\* (length * log2(length) - sum freq * log2(freq)) / length, freq and length
\* in lowest terms.  The table is scaled by 10^6, so the hundredths are the
\* difference over length * 10^4.
ShannonEntropy(sample) ==
    LET frequency == [v \in 0..255 |-> Frequency(sample, v)] @@ <<>>
        divisor == CommonDivisor(frequency, 0, 255)
        reduced == [v \in 0..255 |-> frequency[v] \div divisor] @@ <<>>
        length == ByteLength(sample) \div divisor
    IN  IF ByteLength(sample) = 0 THEN 0
        ELSE RoundDiv(KLog2K[length] - SumKLog2K(reduced, 0, 255), length * 10000)

EntropySampleCap == 1048576

EncryptionSampleLength == 1024

\* Encrypted ZIP, 7z, RAR
EncryptionSignatures ==
    <<<<80, 75, 3, 4>>, <<55, 122, 188, 175>>, <<82, 97, 114, 33>>>>

\* 7.5, in hundredths
EntropyThreshold == 750

ExecutableExtensions ==
    {<<"e", "x", "e">>, <<"m", "s", "i">>, <<"a", "p", "p">>, <<"d", "e", "b">>,
     <<"r", "p", "m">>, <<"d", "m", "g">>, <<"p", "k", "g">>, <<"r", "u", "n">>,
     <<"b", "i", "n">>, <<"c", "o", "m">>, <<"b", "a", "t">>, <<"c", "m", "d">>,
     <<"s", "h">>}

\* filename.split('.').pop()?.toLowerCase() || ''
getFileExtension(filename) ==
    ToLowerCase(SubSeq(filename, LastIndexOf(filename, ".") + 1, Len(filename)))

isExecutableFile(filename) == getFileExtension(filename) \in ExecutableExtensions

(***************************************************************************)
(* Files.  A File carries its declared name, MIME type and time stamp and  *)
(* its bytes; readable tells whether reads of the bytes succeed.  What     *)
(* the browser's decoders make of the bytes is given with the file:        *)
(*   image   <<>> when the bytes are no image, else <<i>>, i the decoded    *)
(*           width and height and the pixels the sampling canvas holds     *)
(*           after drawImage;                                              *)
(*   exif    the tags EXIF.getAllTags returns (a record, possibly empty);  *)
(*   media   <<>> when the bytes are no media, else <<m>>, m the duration  *)
(*           in milliseconds and the video width and height.               *)
(***************************************************************************)
\* file.slice(0, n).arrayBuffer(), file.arrayBuffer(): the bytes, or a
\* rejection.
ReadFails(file) == ~file.readable

\* An ExtendedMetadata object is a function from the names of its assigned
\* fields to their values.
Has(md, field) == field \in DOMAIN md

Set(md, field, value) ==
    [k \in DOMAIN md \cup {field} |-> IF k = field THEN value ELSE md[k]]

IdentityFields == {"name", "size", "type", "lastModified", "extension"}

UniversalFields ==
    {"fileSignature", "checksum", "md5", "entropy", "isExecutable", "isEncrypted",
     "hasMetadata", "processingTime"}

\* The object literal that opens extractMetadata.
BasicMetadata(file) ==
    [name |-> file.name,
     size |-> Len(file.bytes),
     type |-> file.type,
     lastModified |-> file.lastModified,
     extension |-> getFileExtension(file.name)]

\* getFileSignature: '' when the read fails.
getFileSignature(file) ==
    IF ReadFails(file) THEN <<>>
    ELSE SignatureString(Prefix(file.bytes, SignatureLength))

\* calculateChecksum as it would be if the file name were digested with the
\* content.
calculateChecksumOfNamedContent(file, algorithm) ==
    IF ReadFails(file) THEN <<>>
    ELSE DigestHex(subtleDigest(ChecksumAlgorithm(algorithm), file.name \o file.bytes))

\* calculateChecksum: '' when the read or the digest fails.
calculateChecksum(file, algorithm) ==
    IF ReadFails(file) THEN <<>>
    ELSE DigestHex(subtleDigest(ChecksumAlgorithm(algorithm), file.bytes))

\* The content of a file: its bytes, or the runs of a file given by runs.
Content(file) == IF "runs" \in DOMAIN file THEN file.runs ELSE RunsOf(file.bytes)

\* calculateEntropy as it would be if the whole file were sampled.
calculateEntropyOfWholeFile(file) ==
    IF ReadFails(file) THEN 0 ELSE ShannonEntropy(Content(file))

\* calculateEntropy: 0 when the read fails.
calculateEntropy(file) ==
    IF ReadFails(file) THEN 0
    ELSE ShannonEntropy(SliceRuns(Content(file),
                                  Min(ByteLength(Content(file)), EntropySampleCap)))

\* detectEncryption as it would be with the signature test alone.
detectEncryptionBySignature(file) ==
    IF ReadFails(file) THEN FALSE
    ELSE LET bytes == BytesOf(SliceRuns(Content(file), EncryptionSampleLength))
         IN  \E s \in 1..Len(EncryptionSignatures) :
                 /\ Len(bytes) >= Len(EncryptionSignatures[s])
                 /\ SubSeq(bytes, 1, Len(EncryptionSignatures[s])) = EncryptionSignatures[s]

\* detectEncryption: false when the read fails.
detectEncryption(file) ==
    IF ReadFails(file) THEN FALSE
    ELSE LET bytes == BytesOf(SliceRuns(Content(file), EncryptionSampleLength))
         IN  \/ \E s \in 1..Len(EncryptionSignatures) :
                    /\ Len(bytes) >= Len(EncryptionSignatures[s])
                    /\ SubSeq(bytes, 1, Len(EncryptionSignatures[s])) = EncryptionSignatures[s]
             \/ calculateEntropy(file) > EntropyThreshold

(***************************************************************************)
(* Type dispatch of extractMetadata.                                       *)
(***************************************************************************)
S_image == <<"i", "m", "a", "g", "e", "/">>
S_video == <<"v", "i", "d", "e", "o", "/">>
S_audio == <<"a", "u", "d", "i", "o", "/">>
S_pdf == <<"a", "p", "p", "l", "i", "c", "a", "t", "i", "o", "n", "/", "p", "d", "f">>
S_text == <<"t", "e", "x", "t", "/">>
S_dotTxt == <<".", "t", "x", "t">>
S_dotMd == <<".", "m", "d">>
S_zip == <<"z", "i", "p">>
S_archive == <<"a", "r", "c", "h", "i", "v", "e">>
S_dotZip == <<".", "z", "i", "p">>
S_dotRar == <<".", "r", "a", "r">>

\* The if / else-if ladder: the extractor whose branch is taken.
FormatExtractor(file) ==
    IF StartsWith(file.type, S_image) THEN "image"
    ELSE IF StartsWith(file.type, S_video) \/ StartsWith(file.type, S_audio) THEN "media"
    ELSE IF file.type = S_pdf THEN "pdf"
    ELSE IF \/ Includes(file.type, S_text)
            \/ EndsWith(file.name, S_dotTxt)
            \/ EndsWith(file.name, S_dotMd) THEN "text"
    ELSE IF \/ Includes(file.type, S_zip)
            \/ Includes(file.type, S_archive)
            \/ EndsWith(file.name, S_dotZip)
            \/ EndsWith(file.name, S_dotRar) THEN "archive"
    ELSE "none"

(***************************************************************************)
(* Format extractors: what each writes into the metadata object.           *)
(***************************************************************************)
\* The decoders' answers for the file; an unreadable file decodes to nothing.
ImageDecodes(file) == file.readable /\ file.image # <<>>

MediaDecodes(file) == file.readable /\ file.media # <<>>

\* extractImageMetadata, first try block, getImageDimensions resolved.
WithImageDimensions(md, file) ==
    LET img == file.image[1]
    IN  Set(Set(md, "dimensions", [width |-> img.width, height |-> img.height]),
            "aspectRatio", calculateAspectRatio(img.width, img.height))

TagTruthy(exifData, tag, falsy) == tag \in DOMAIN exifData /\ exifData[tag] # falsy

\* extractImageMetadata, second try block, getExifData resolved.
WithExifData(md, file) ==
    LET exifData == file.exif
        m1 == Set(md, "exifData", exifData)
        m2 == IF TagTruthy(exifData, "XResolution", 0) /\ TagTruthy(exifData, "YResolution", 0)
              THEN Set(m1, "dpi", [x |-> exifData.XResolution, y |-> exifData.YResolution])
              ELSE m1
        m3 == IF TagTruthy(exifData, "Artist", <<>>)
              THEN Set(m2, "creator", exifData.Artist) ELSE m2
        m4 == IF TagTruthy(exifData, "ImageDescription", <<>>)
              THEN Set(m3, "subject", exifData.ImageDescription) ELSE m3
    IN  IF TagTruthy(exifData, "Software", <<>>)
        THEN Set(m4, "keywords", <<exifData.Software>>) ELSE m4

\* canvas.width as it would be without the cap of 100.
CanvasWidthUncapped(img) == img.width

\* canvas.width, canvas.height
CanvasWidth(img) == Min(img.width, PixelSampleCap)

CanvasHeight(img) == Min(img.height, PixelSampleCap)

\* extractImageMetadata, third try block, the sampling image loaded.
WithPixelSample(md, file) ==
    LET imageData == file.image[1].canvas
    IN  Set(Set(md, "hasAlpha", hasAlphaChannel(imageData)),
            "colorDepth", estimateColorDepth(imageData))

\* extractMediaMetadata after onloadedmetadata; duration is kept in
\* milliseconds, so bitrate = round(size * 8 / (duration / 1000)).
WithMediaMetadata(md, file) ==
    LET media == file.media[1]
        m1 == Set(md, "duration", media.duration)
        m2 == IF StartsWith(file.type, S_video) /\ media.videoWidth > 0
              THEN Set(Set(m1, "dimensions",
                           [width |-> media.videoWidth, height |-> media.videoHeight]),
                       "aspectRatio",
                       calculateAspectRatio(media.videoWidth, media.videoHeight))
              ELSE m1
    IN  IF media.duration > 0
        THEN Set(m2, "bitrate", RoundDiv(Len(file.bytes) * 8 * 1000, media.duration))
        ELSE m2

\* keywordsMatch[1].split(',').map(k => k.trim())
KeywordList(capture) ==
    LET parts == SplitOn(capture, 44)
    IN  [i \in 1..Len(parts) |-> Trim(parts[i])]

\* extractPDFMetadata; a failed read leaves the object as it is.
extractPDFMetadata(md, file) ==
    IF ReadFails(file) THEN md
    ELSE
    LET text == Latin1Decode(file.bytes)
        infoMatch == InfoMatch(text)
        info == IF infoMatch = NoMatch THEN <<>> ELSE infoMatch[1]
        titleMatch == IF infoMatch = NoMatch THEN NoMatch ELSE ParenMatch(info, P_Title)
        authorMatch == IF infoMatch = NoMatch THEN NoMatch ELSE ParenMatch(info, P_Author)
        keywordsMatch == IF infoMatch = NoMatch THEN NoMatch ELSE ParenMatch(info, P_Keywords)
        m1 == IF titleMatch # NoMatch THEN Set(md, "subject", titleMatch[1]) ELSE md
        m2 == IF authorMatch # NoMatch THEN Set(m1, "creator", authorMatch[1]) ELSE m1
        m3 == IF keywordsMatch # NoMatch
              THEN Set(m2, "keywords", KeywordList(keywordsMatch[1])) ELSE m2
        pages == CountPageMarkers(text, 1)
        m4 == IF pages > 0 THEN Set(m3, "pageCount", pages) ELSE m3
        textContent == PdfTextContent(text)
    IN  Set(Set(m4, "wordCount", CountWords(textContent)),
            "characterCount", Len(textContent))

\* extractTextMetadata; a failed read leaves the object as it is.
extractTextMetadata(md, file) ==
    IF ReadFails(file) THEN md
    ELSE
    LET text == Utf8Decode(file.bytes)
        m1 == Set(md, "wordCount", CountWords(text))
        m2 == Set(m1, "characterCount", Len(text))
        m3 == Set(m2, "lineCount", CountLines(text))
        m4 == Set(m3, "encoding", detectEncoding(text))
    IN  Set(m4, "language", detectLanguage(text))

\* extractArchiveMetadata; a failed read and the RangeError of a buffer
\* shorter than four bytes are caught and leave the object as it is.
extractArchiveMetadata(md, file) ==
    IF ReadFails(file) THEN md
    ELSE IF ThrowsRangeError(file.bytes, 0, 4) THEN md
    ELSE IF getUint32(file.bytes, 0) # ZipMagic THEN md
    ELSE LET uncompressedSize == ZipWalk(file.bytes, 0, 0)
         IN  IF uncompressedSize > 0
             THEN Set(md, "compressionRatio",
                      RoundDiv(Len(file.bytes) * 100, uncompressedSize))
             ELSE md

MetadataScanLength == 2048

\* hasEmbeddedMetadata; false when the read fails.
hasEmbeddedMetadata(file) ==
    IF StartsWith(file.type, S_image) THEN DOMAIN file.exif # {}
    ELSE IF file.type = S_pdf
    THEN /\ ~ReadFails(file)
         /\ LET text == Latin1Decode(Prefix(file.bytes, MetadataScanLength))
            IN  Includes(text, P_Info) \/ Includes(text, P_Metadata)
    ELSE FALSE

(***************************************************************************)
(* The files the user can submit.                                          *)
(***************************************************************************)
F_photo ==
    [name |-> <<"p", "h", "o", "t", "o", ".", "p", "n", "g">>,
     type |-> <<"i", "m", "a", "g", "e", "/", "p", "n", "g">>,
     lastModified |-> 1000,
     bytes |-> <<137, 80, 78, 71, 13, 10, 26, 10, 0, 0, 0, 13, 73, 72, 68, 82, 0, 0>>,
     readable |-> TRUE,
     image |-> <<[width |-> 2, height |-> 1, canvas |-> <<<<255, 0, 0, 255>>, <<0, 0, 255,
         128>>>>]>>,
     exif |-> <<>>,
     media |-> <<>>]

F_shot ==
    [name |-> <<"s", "h", "o", "t", ".", "J", "P", "G">>,
     type |-> <<"i", "m", "a", "g", "e", "/", "j", "p", "e", "g">>,
     lastModified |-> 2000,
     bytes |-> <<255, 216, 255, 225, 0, 16, 69, 120, 105, 102>>,
     readable |-> TRUE,
     image |-> <<[width |-> 3, height |-> 1, canvas |-> <<<<1, 2, 3, 255>>, <<4, 5, 6, 255>>,
         <<7, 8, 9, 255>>>>]>>,
     exif |-> [Artist |-> <<"A", "l">>, ImageDescription |-> <<"s", "e", "a">>, Software |->
         <<"g", "i", "m", "p">>, XResolution |-> 72, YResolution |-> 72],
     media |-> <<>>]

F_broken ==
    [name |-> <<"b", "r", "o", "k", "e", "n", ".", "p", "n", "g">>,
     type |-> <<"i", "m", "a", "g", "e", "/", "p", "n", "g">>,
     lastModified |-> 3000,
     bytes |-> <<110, 111, 116, 32, 97, 32, 112, 110, 103>>,
     readable |-> TRUE,
     image |-> <<>>,
     exif |-> <<>>,
     media |-> <<>>]

F_clip ==
    [name |-> <<"c", "l", "i", "p", ".", "m", "p", "4">>,
     type |-> <<"v", "i", "d", "e", "o", "/", "m", "p", "4">>,
     lastModified |-> 4000,
     bytes |-> <<0, 0, 0, 24, 102, 116, 121, 112, 109, 112, 52, 50>>,
     readable |-> TRUE,
     image |-> <<>>,
     exif |-> <<>>,
     media |-> <<[duration |-> 2000, videoWidth |-> 4, videoHeight |-> 2]>>]

F_song ==
    [name |-> <<"s", "o", "n", "g", ".", "m", "p", "3">>,
     type |-> <<"a", "u", "d", "i", "o", "/", "m", "p", "e", "g">>,
     lastModified |-> 5000,
     bytes |-> <<73, 68, 51, 3, 0, 0, 0, 0, 0, 0>>,
     readable |-> TRUE,
     image |-> <<>>,
     exif |-> <<>>,
     media |-> <<[duration |-> 1500, videoWidth |-> 0, videoHeight |-> 0]>>]

F_noise ==
    [name |-> <<"n", "o", "i", "s", "e", ".", "m", "p", "3">>,
     type |-> <<"a", "u", "d", "i", "o", "/", "m", "p", "e", "g">>,
     lastModified |-> 6000,
     bytes |-> <<122, 122, 122, 122>>,
     readable |-> TRUE,
     image |-> <<>>,
     exif |-> <<>>,
     media |-> <<>>]

F_paper ==
    [name |-> <<"p", "a", "p", "e", "r", ".", "p", "d", "f">>,
     type |-> <<"a", "p", "p", "l", "i", "c", "a", "t", "i", "o", "n", "/", "p", "d", "f">>,
     lastModified |-> 7000,
     bytes |-> <<47, 73, 110, 102, 111, 32, 60, 60, 47, 84, 105, 116, 108, 101, 40, 84, 41, 47,
         65, 117, 116, 104, 111, 114, 40, 65, 32, 98, 41, 47, 75, 101, 121, 119, 111, 114, 100,
         115, 40, 107, 44, 32, 108, 41, 62, 62, 47, 84, 121, 112, 101, 32, 47, 80, 97, 103, 101,
         32, 47, 84, 121, 112, 101, 47, 80, 97, 103, 101, 115>>,
     readable |-> TRUE,
     image |-> <<>>,
     exif |-> <<>>,
     media |-> <<>>]

F_scan ==
    [name |-> <<"s", "c", "a", "n", ".", "p", "d", "f">>,
     type |-> <<>>,
     lastModified |-> 8000,
     bytes |-> <<47, 73, 110, 102, 111, 32, 60, 60, 47, 84, 105, 116, 108, 101, 40, 84, 41, 47,
         65, 117, 116, 104, 111, 114, 40, 65, 32, 98, 41, 47, 75, 101, 121, 119, 111, 114, 100,
         115, 40, 107, 44, 32, 108, 41, 62, 62, 47, 84, 121, 112, 101, 32, 47, 80, 97, 103, 101,
         32, 47, 84, 121, 112, 101, 47, 80, 97, 103, 101, 115>>,
     readable |-> TRUE,
     image |-> <<>>,
     exif |-> <<>>,
     media |-> <<>>]

F_notes ==
    [name |-> <<"n", "o", "t", "e", "s", ".", "t", "x", "t">>,
     type |-> <<"t", "e", "x", "t", "/", "p", "l", "a", "i", "n">>,
     lastModified |-> 9000,
     bytes |-> <<84, 104, 101, 32, 99, 97, 116, 32, 97, 110, 100, 32, 116, 104, 101, 32, 100,
         111, 103, 10, 111, 102, 32, 116, 104, 101, 32, 104, 111, 117, 115, 101>>,
     readable |-> TRUE,
     image |-> <<>>,
     exif |-> <<>>,
     media |-> <<>>]

F_readme ==
    [name |-> <<"R", "E", "A", "D", "M", "E", ".", "m", "d">>,
     type |-> <<>>,
     lastModified |-> 10000,
     bytes |-> <<101, 32, 101, 32, 101, 32, 101>>,
     readable |-> TRUE,
     image |-> <<>>,
     exif |-> <<>>,
     media |-> <<>>]

F_zip ==
    [name |-> <<"d", "a", "t", "a", ".", "z", "i", "p">>,
     type |-> <<"a", "p", "p", "l", "i", "c", "a", "t", "i", "o", "n", "/", "z", "i", "p">>,
     lastModified |-> 11000,
     bytes |-> <<80, 75, 3, 4, 20, 0, 0, 0, 0, 0, 0, 0, 0, 0, 0, 0, 0, 0, 2, 0, 0, 0, 10, 0, 0,
         0, 1, 0, 0, 0, 97, 120, 121, 80, 75>>,
     readable |-> TRUE,
     image |-> <<>>,
     exif |-> <<>>,
     media |-> <<>>]

F_rar ==
    [name |-> <<"o", "l", "d", ".", "r", "a", "r">>,
     type |-> <<>>,
     lastModified |-> 12000,
     bytes |-> <<82, 97, 114, 33, 26, 7, 0>>,
     readable |-> TRUE,
     image |-> <<>>,
     exif |-> <<>>,
     media |-> <<>>]

F_bin ==
    [name |-> <<"d", "a", "t", "a", ".", "b", "i", "n">>,
     type |-> <<"a", "p", "p", "l", "i", "c", "a", "t", "i", "o", "n", "/", "o", "c", "t", "e",
         "t", "-", "s", "t", "r", "e", "a", "m">>,
     lastModified |-> 13000,
     bytes |-> <<84, 104, 101, 32, 99, 97, 116, 32, 97, 110, 100, 32, 116, 104, 101, 32, 100,
         111, 103, 10, 111, 102, 32, 116, 104, 101, 32, 104, 111, 117, 115, 101>>,
     readable |-> TRUE,
     image |-> <<>>,
     exif |-> <<>>,
     media |-> <<>>]

F_exe ==
    [name |-> <<"s", "e", "t", "u", "p", ".", "E", "X", "E">>,
     type |-> <<"a", "p", "p", "l", "i", "c", "a", "t", "i", "o", "n", "/", "x", "-", "m", "s",
         "d", "o", "w", "n", "l", "o", "a", "d">>,
     lastModified |-> 14000,
     bytes |-> <<77, 90, 144, 0>>,
     readable |-> TRUE,
     image |-> <<>>,
     exif |-> <<>>,
     media |-> <<>>]

F_empty ==
    [name |-> <<"e", "m", "p", "t", "y">>,
     type |-> <<>>,
     lastModified |-> 15000,
     bytes |-> <<>>,
     readable |-> TRUE,
     image |-> <<>>,
     exif |-> <<>>,
     media |-> <<>>]

F_goneTxt ==
    [name |-> <<"g", "o", "n", "e", ".", "t", "x", "t">>,
     type |-> <<"t", "e", "x", "t", "/", "p", "l", "a", "i", "n">>,
     lastModified |-> 16000,
     bytes |-> <<84, 104, 101, 32, 99, 97, 116, 32, 97, 110, 100, 32, 116, 104, 101, 32, 100,
         111, 103, 10, 111, 102, 32, 116, 104, 101, 32, 104, 111, 117, 115, 101>>,
     readable |-> FALSE,
     image |-> <<>>,
     exif |-> <<>>,
     media |-> <<>>]

F_gonePng ==
    [name |-> <<"g", "o", "n", "e", ".", "p", "n", "g">>,
     type |-> <<"i", "m", "a", "g", "e", "/", "p", "n", "g">>,
     lastModified |-> 17000,
     bytes |-> <<137, 80, 78, 71>>,
     readable |-> FALSE,
     image |-> <<>>,
     exif |-> <<>>,
     media |-> <<>>]

\* Two bytes under an archive name.
F_stub ==
    [name |-> <<"s", "t", "u", "b", ".", "z", "i", "p">>,
     type |-> <<"a", "p", "p", "l", "i", "c", "a", "t", "i", "o", "n", "/", "z", "i", "p">>,
     lastModified |-> 18000,
     bytes |-> <<80, 75>>,
     readable |-> TRUE,
     image |-> <<>>,
     exif |-> <<>>,
     media |-> <<>>]

\* A shell script whose name has no '.'.
F_run ==
    [name |-> <<"r", "u", "n">>,
     type |-> <<>>,
     lastModified |-> 21000,
     bytes |-> <<35, 33, 47, 98, 105, 110, 47, 115, 104, 10>>,
     readable |-> TRUE,
     image |-> <<>>,
     exif |-> <<>>,
     media |-> <<>>]

\* French text in UTF-8: 'Être ou ne pas être : être, toujours être.'
F_lettre ==
    [name |-> <<"l", "e", "t", "t", "r", "e", ".", "t", "x", "t">>,
     type |-> <<"t", "e", "x", "t", "/", "p", "l", "a", "i", "n">>,
     lastModified |-> 22000,
     bytes |-> <<195, 138, 116, 114, 101, 32, 111, 117, 32, 110, 101, 32, 112, 97, 115, 32, 195,
         170, 116, 114, 101, 32, 58, 32, 195, 170, 116, 114, 101, 44, 32, 116, 111, 117, 106,
         111, 117, 114, 115, 32, 195, 170, 116, 114, 101, 46>>,
     readable |-> TRUE,
     image |-> <<>>,
     exif |-> <<>>,
     media |-> <<>>]

\* One local file header and nothing after it.
F_flush ==
    [name |-> <<"f", "l", "u", "s", "h", ".", "z", "i", "p">>,
     type |-> <<"a", "p", "p", "l", "i", "c", "a", "t", "i", "o", "n", "/", "z", "i", "p">>,
     lastModified |-> 19000,
     bytes |-> <<80, 75, 3, 4, 20, 0, 0, 0, 0, 0, 0, 0, 0, 0, 0, 0, 0, 0, 0, 0, 0, 0, 5, 0, 0,
         0, 0, 0, 0, 0>>,
     readable |-> TRUE,
     image |-> <<>>,
     exif |-> <<>>,
     media |-> <<>>]

\* Two local file headers and the start of a central directory.
F_pair ==
    [name |-> <<"p", "a", "i", "r", ".", "z", "i", "p">>,
     type |-> <<>>,
     lastModified |-> 20000,
     bytes |-> <<80, 75, 3, 4, 20, 0, 0, 0, 0, 0, 0, 0, 0, 0, 0, 0, 0, 0, 2, 0, 0, 0, 10, 0, 0,
         0, 1, 0, 0, 0, 97, 120, 121, 80, 75, 3, 4, 20, 0, 0, 0, 0, 0, 0, 0, 0, 0, 0, 0, 0, 0,
         1, 0, 0, 0, 4, 0, 0, 0, 1, 0, 0, 0, 98, 122, 80, 75, 1, 2, 0, 0, 0, 0, 0, 0, 0, 0, 0,
         0, 0, 0, 0, 0, 0, 0, 0, 0, 0, 0, 0, 0, 0, 0, 0, 0, 0, 0, 0, 0>>,
     readable |-> TRUE,
     image |-> <<>>,
     exif |-> <<>>,
     media |-> <<>>]

\* Every byte value once.
F_random ==
    [name |-> <<"r", "a", "n", "d", "o", "m", ".", "d", "a", "t">>,
     type |-> <<"a", "p", "p", "l", "i", "c", "a", "t", "i", "o", "n", "/", "o", "c", "t", "e",
         "t", "-", "s", "t", "r", "e", "a", "m">>,
     lastModified |-> 23000,
     bytes |-> <<0, 1, 2, 3, 4, 5, 6, 7, 8, 9, 10, 11, 12, 13, 14, 15, 16, 17, 18, 19, 20, 21,
         22, 23, 24, 25, 26, 27, 28, 29, 30, 31, 32, 33, 34, 35, 36, 37, 38, 39, 40, 41, 42, 43,
         44, 45, 46, 47, 48, 49, 50, 51, 52, 53, 54, 55, 56, 57, 58, 59, 60, 61, 62, 63, 64, 65,
         66, 67, 68, 69, 70, 71, 72, 73, 74, 75, 76, 77, 78, 79, 80, 81, 82, 83, 84, 85, 86, 87,
         88, 89, 90, 91, 92, 93, 94, 95, 96, 97, 98, 99, 100, 101, 102, 103, 104, 105, 106, 107,
         108, 109, 110, 111, 112, 113, 114, 115, 116, 117, 118, 119, 120, 121, 122, 123, 124,
         125, 126, 127, 128, 129, 130, 131, 132, 133, 134, 135, 136, 137, 138, 139, 140, 141,
         142, 143, 144, 145, 146, 147, 148, 149, 150, 151, 152, 153, 154, 155, 156, 157, 158,
         159, 160, 161, 162, 163, 164, 165, 166, 167, 168, 169, 170, 171, 172, 173, 174, 175,
         176, 177, 178, 179, 180, 181, 182, 183, 184, 185, 186, 187, 188, 189, 190, 191, 192,
         193, 194, 195, 196, 197, 198, 199, 200, 201, 202, 203, 204, 205, 206, 207, 208, 209,
         210, 211, 212, 213, 214, 215, 216, 217, 218, 219, 220, 221, 222, 223, 224, 225, 226,
         227, 228, 229, 230, 231, 232, 233, 234, 235, 236, 237, 238, 239, 240, 241, 242, 243,
         244, 245, 246, 247, 248, 249, 250, 251, 252, 253, 254, 255>>,
     readable |-> TRUE,
     image |-> <<>>,
     exif |-> <<>>,
     media |-> <<>>]

\* The start of a 7z archive.
F_seven ==
    [name |-> <<"b", "a", "c", "k", "u", "p", ".", "7", "z">>,
     type |-> <<"a", "p", "p", "l", "i", "c", "a", "t", "i", "o", "n", "/", "x", "-", "7", "z",
         "-", "c", "o", "m", "p", "r", "e", "s", "s", "e", "d">>,
     lastModified |-> 24000,
     bytes |-> <<55, 122, 188, 175, 39, 28, 0, 4>>,
     readable |-> TRUE,
     image |-> <<>>,
     exif |-> <<>>,
     media |-> <<>>]

Files ==
    {F_photo, F_shot, F_broken, F_clip, F_song, F_noise, F_paper, F_scan, F_notes, F_readme,
        F_zip, F_rar, F_bin, F_exe, F_empty, F_goneTxt, F_gonePng, F_stub, F_run, F_lettre,
        F_flush, F_pair, F_random, F_seven}

(***************************************************************************)
(* The steps of extractMetadata read nothing but the file they were called *)
(* with, so what each of them assigns is tabulated over the files (@@      *)
(* gives the function as a table).                                         *)
(***************************************************************************)
\* fileSignature
SignatureByFile ==
    [file \in Files |-> getFileSignature(file)] @@ <<>>

\* the fields set from getImageDimensions
DimensionsByFile ==
    [file \in Files |-> IF ImageDecodes(file) THEN WithImageDimensions(<<>>, file)
                    ELSE <<>>] @@ <<>>

\* the fields set from the EXIF tags
ExifByFile ==
    [file \in Files |-> WithExifData(<<>>, file)] @@ <<>>

\* the fields set from the sampled pixels
PixelsByFile ==
    [file \in Files |-> IF ImageDecodes(file) THEN WithPixelSample(<<>>, file) ELSE <<>>] @@ <<>>

\* the fields extractMediaMetadata sets
MediaByFile ==
    [file \in Files |-> IF MediaDecodes(file) THEN WithMediaMetadata(<<>>, file) ELSE <<>>] @@ <<>>

\* the fields extractPDFMetadata sets
PdfByFile ==
    [file \in Files |-> IF FormatExtractor(file) = "pdf" THEN extractPDFMetadata(<<>>, file)
                    ELSE <<>>] @@ <<>>

\* the fields extractTextMetadata sets
TextByFile ==
    [file \in Files |-> IF FormatExtractor(file) = "text" THEN extractTextMetadata(<<>>, file)
                    ELSE <<>>] @@ <<>>

\* the fields extractArchiveMetadata sets
ArchiveByFile ==
    [file \in Files |-> IF FormatExtractor(file) = "archive"
                    THEN extractArchiveMetadata(<<>>, file) ELSE <<>>] @@ <<>>

\* checksum
ChecksumByFile ==
    [file \in Files |-> calculateChecksum(file, "SHA-256")] @@ <<>>

\* md5
Md5ByFile ==
    [file \in Files |-> calculateChecksum(file, "MD5")] @@ <<>>

\* entropy
EntropyByFile ==
    [file \in Files |-> calculateEntropy(file)] @@ <<>>

\* isEncrypted
IsEncryptedByFile ==
    [file \in Files |-> detectEncryption(file)] @@ <<>>

\* hasMetadata
HasMetadataByFile ==
    [file \in Files |-> hasEmbeddedMetadata(file)] @@ <<>>

\* The object md with the fields of assigned written over it.
Assign(md, assigned) ==
    [k \in DOMAIN md \cup DOMAIN assigned |->
        IF k \in DOMAIN assigned THEN assigned[k] ELSE md[k]]

(***************************************************************************)
(* One run of extractMetadata.  A run is                                   *)
(*   st         the await the call is suspended at ("returned" once the    *)
(*              promise is resolved, "completed" once handleFileSelect has *)
(*              taken the result);                                         *)
(*   file       the File it was called with;                               *)
(*   md         basicMetadata;                                             *)
(*   extractor  the branch of the type dispatch that was taken;            *)
(*   urls       the object URLs the run created and has not revoked;       *)
(*   log        what the run passed to console.error, in order.            *)
(* Each operator below is the code that runs when the awaited promise      *)
(* settles in the way the name says, up to the next await.                 *)
(***************************************************************************)
\* extractMetadata up to its first await (getFileSignature).
StartRun(file) ==
    [st |-> "signature", file |-> file, md |-> BasicMetadata(file),
     extractor |-> "pending", urls |-> 0, log |-> <<>>]

\* The first await of the extractor chosen, "checksum" when there is none.
FirstAwait(extractor) ==
    CASE extractor = "image" -> "dimensions"
      [] extractor = "media" -> "media"
      [] extractor = "pdf" -> "pdf"
      [] extractor = "text" -> "text"
      [] extractor = "archive" -> "archive"
      [] OTHER -> "checksum"

\* fileSignature is assigned and the dispatch runs; the image and the media
\* extractor create an object URL before they suspend.
AfterSignature(run) ==
    LET extractor == FormatExtractor(run.file)
    IN  [run EXCEPT !.md = Set(run.md, "fileSignature", SignatureByFile[run.file]),
                    !.extractor = extractor,
                    !.st = FirstAwait(extractor),
                    !.urls = IF extractor \in {"image", "media"} THEN 1 ELSE 0]

\* getImageDimensions resolved (img.onload).
AfterImageOnload(run) ==
    [run EXCEPT !.md = Assign(run.md, DimensionsByFile[run.file]), !.st = "exif"]

\* getImageDimensions rejected, as it would be without the try / catch
\* around the call: the rejection leaves extractMetadata.
AfterImageRejectedUncaught(run, reason) ==
    [run EXCEPT !.st = "rejected", !.log = Append(run.log, reason)]

\* getImageDimensions rejected with the reason given (img.onerror, or the
\* 5 s timer): logged.
AfterImageRejected(run, reason) ==
    [run EXCEPT !.st = "exif", !.log = Append(run.log, reason)]

\* getExifData resolved; the sampling image gets its object URL.
AfterExifCallback(run) ==
    [run EXCEPT !.md = Assign(run.md, ExifByFile[run.file]), !.st = "pixels",
                !.urls = run.urls + 1]

\* The sampling image loaded: the pixels are read and the URL is revoked.
AfterPixelOnload(run) ==
    [run EXCEPT !.md = Assign(run.md, PixelsByFile[run.file]), !.st = "checksum",
                !.urls = run.urls - 1]

\* The sampling image failed to load: logged.
AfterPixelOnerror(run) ==
    [run EXCEPT !.st = "checksum",
                !.log = Append(run.log, "Error analyzing image properties")]

\* extractMediaMetadata, onloadedmetadata: fields set, URL revoked.
AfterMediaLoaded(run) ==
    [run EXCEPT !.md = Assign(run.md, MediaByFile[run.file]), !.st = "checksum",
                !.urls = run.urls - 1]

\* extractMediaMetadata rejected, as it would be if the catch block filled
\* in a zero duration.
AfterMediaRejectedZeroDuration(run, reason) ==
    [run EXCEPT !.md = Set(run.md, "duration", 0), !.st = "checksum",
                !.log = Append(run.log, reason)]

\* extractMediaMetadata rejected with the reason given (onerror, or the 5 s
\* timer): logged.
AfterMediaRejected(run, reason) ==
    [run EXCEPT !.st = "checksum", !.log = Append(run.log, reason)]

\* What a step logs: message when failed, nothing otherwise.
Logged(log, failed, message) == IF failed THEN Append(log, message) ELSE log

AfterPDF(run) ==
    [run EXCEPT !.md = Assign(run.md, PdfByFile[run.file]), !.st = "checksum",
                !.log = Logged(run.log, ReadFails(run.file),
                               "Error extracting PDF metadata")]

AfterText(run) ==
    [run EXCEPT !.md = Assign(run.md, TextByFile[run.file]), !.st = "checksum",
                !.log = Logged(run.log, ReadFails(run.file),
                               "Error extracting text metadata")]

\* The archive extractor throws on a failed read and on a buffer too short
\* for the first getUint32.
ArchiveThrows(file) == ReadFails(file) \/ ThrowsRangeError(file.bytes, 0, 4)

\* The archive step as it would be without the try / catch of
\* extractArchiveMetadata: what the extractor throws leaves extractMetadata.
AfterArchiveUncaught(run) ==
    IF ArchiveThrows(run.file) THEN [run EXCEPT !.st = "rejected"]
    ELSE [run EXCEPT !.md = Assign(run.md, ArchiveByFile[run.file]), !.st = "checksum"]

AfterArchive(run) ==
    [run EXCEPT !.md = Assign(run.md, ArchiveByFile[run.file]), !.st = "checksum",
                !.log = Logged(run.log, ArchiveThrows(run.file),
                               "Error extracting archive metadata")]

\* basicMetadata.checksum = await this.calculateChecksum(file, 'SHA-256')
AfterChecksum(run) ==
    [run EXCEPT !.md = Set(run.md, "checksum", ChecksumByFile[run.file]),
                !.st = "md5",
                !.log = Logged(run.log, ReadFails(run.file), "Error calculating SHA-256")]

\* basicMetadata.md5 = await this.calculateChecksum(file, 'MD5')
AfterMd5(run) ==
    [run EXCEPT !.md = Set(run.md, "md5", Md5ByFile[run.file]),
                !.st = "entropy",
                !.log = Logged(run.log, ReadFails(run.file), "Error calculating MD5")]

\* entropy is assigned, then isExecutable, then detectEncryption suspends.
AfterEntropy(run) ==
    [run EXCEPT !.md = Set(Set(run.md, "entropy", EntropyByFile[run.file]),
                           "isExecutable", isExecutableFile(run.file.name)),
                !.st = "encryption",
                !.log = Logged(run.log, ReadFails(run.file), "Error calculating entropy")]

\* The encryption step as it would be if processingTime were attached
\* before hasEmbeddedMetadata is awaited.
AfterEncryptionTimedEarly(run) ==
    [run EXCEPT !.md = Set(Set(run.md, "isEncrypted", IsEncryptedByFile[run.file]),
                           "processingTime", 0),
                !.st = "hasMetadata"]

AfterEncryption(run) ==
    [run EXCEPT !.md = Set(run.md, "isEncrypted", IsEncryptedByFile[run.file]),
                !.st = "hasMetadata"]

\* Math.round((endTime - startTime) * 100), the elapsed time in microseconds.
ProcessingTime(elapsed) == RoundDiv(elapsed, 10)

\* The end of extractMetadata as it would be if a file whose reads fail made
\* the promise reject.
AfterHasMetadataReadChecked(run, elapsed) ==
    IF ReadFails(run.file) THEN [run EXCEPT !.st = "rejected"]
    ELSE [run EXCEPT !.md = Set(Set(run.md, "hasMetadata", HasMetadataByFile[run.file]),
                                "processingTime", ProcessingTime(elapsed)),
                     !.st = "returned"]

\* hasMetadata is assigned, the clock is read, processingTime is attached
\* and the object is returned.
AfterHasMetadata(run, elapsed) ==
    [run EXCEPT !.md = Set(Set(run.md, "hasMetadata", HasMetadataByFile[run.file]),
                           "processingTime", ProcessingTime(elapsed)),
                !.st = "returned"]

(***************************************************************************)
(* The App component.                                                      *)
(*   metadata      <<>> for null, else <<record>>;                         *)
(*   isProcessing, error   the other two useState cells;                   *)
(*   runs          the calls of handleFileSelect so far, in order.         *)
(* The helper functions of the extractor are also called on their own:     *)
(*   call          the last such call, its arguments and what it returned. *)
(***************************************************************************)
VARIABLES metadata, isProcessing, error, runs, call

vars == <<metadata, isProcessing, error, runs, call>>

\* No helper has been called on its own.
NoCall == [fn |-> "none"]

NoError == "null"

FailureMessage == "Failed to extract metadata. Please try again."

\* Calls of handleFileSelect in one behaviour of the sequential
\* specification, and of the concurrent one.
MaxSequentialRuns == 1

MaxConcurrentRuns == 2

\* Elapsed times, in microseconds, the clock may show at the end of a run.
ElapsedChoices == {4, 1235}

\* The files submitted while another run is in flight.
ConcurrentFiles == {F_notes, F_bin, F_goneTxt}

Init ==
    /\ metadata = <<>>
    /\ isProcessing = FALSE
    /\ error = NoError
    /\ runs = <<>>
    /\ call = NoCall

\* No call of handleFileSelect is between its start and its finally block.
Idle == \A r \in DOMAIN runs : runs[r].st = "completed"

\* handleFileSelect up to its await: the two setState calls, then
\* extractMetadata runs to its first await.
handleFileSelect(file) ==
    /\ isProcessing' = TRUE
    /\ error' = NoError
    /\ runs' = Append(runs, StartRun(file))
    /\ UNCHANGED <<metadata, call>>

\* The upload surface takes no file while isProcessing is rendered: the
\* input is disabled and the drop zone ignores pointer events.
FileUploadEnabled == ~isProcessing

\* handleDrop, handleFileInput: the first file goes to onFileSelect.
FileUploadSelect ==
    \E file \in Files :
        /\ FileUploadEnabled
        /\ Len(runs) < MaxSequentialRuns
        /\ handleFileSelect(file)

\* onFileSelect called whatever the upload surface shows: handleFileSelect
\* itself does not look at isProcessing.
HandleFileSelectAnyTime ==
    \E file \in ConcurrentFiles :
        /\ Len(runs) < MaxConcurrentRuns
        /\ handleFileSelect(file)

\* The run r moves from the await `at` to `next`.
Step(r, at, next) ==
    /\ runs[r].st = at
    /\ runs' = [runs EXCEPT ![r] = next]
    /\ UNCHANGED <<metadata, isProcessing, error, call>>

GetFileSignature ==
    \E r \in DOMAIN runs : Step(r, "signature", AfterSignature(runs[r]))

ImageOnload ==
    \E r \in DOMAIN runs :
        /\ ImageDecodes(runs[r].file)
        /\ Step(r, "dimensions", AfterImageOnload(runs[r]))

ImageOnerror ==
    \E r \in DOMAIN runs :
        /\ ~ImageDecodes(runs[r].file)
        /\ Step(r, "dimensions", AfterImageRejected(runs[r], "Image load error"))

\* The 5000 ms timer of getImageDimensions.
ImageLoadTimeout ==
    \E r \in DOMAIN runs :
        Step(r, "dimensions", AfterImageRejected(runs[r], "Image load timeout"))

\* The callback of EXIF.getData; nothing else ends this wait.
ExifCallback ==
    \E r \in DOMAIN runs : Step(r, "exif", AfterExifCallback(runs[r]))

\* onload / onerror of the sampling image; nothing else ends this wait.
PixelOnload ==
    \E r \in DOMAIN runs :
        /\ ImageDecodes(runs[r].file)
        /\ Step(r, "pixels", AfterPixelOnload(runs[r]))

PixelOnerror ==
    \E r \in DOMAIN runs :
        /\ ~ImageDecodes(runs[r].file)
        /\ Step(r, "pixels", AfterPixelOnerror(runs[r]))

MediaOnloadedmetadata ==
    \E r \in DOMAIN runs :
        /\ MediaDecodes(runs[r].file)
        /\ Step(r, "media", AfterMediaLoaded(runs[r]))

MediaOnerror ==
    \E r \in DOMAIN runs :
        /\ ~MediaDecodes(runs[r].file)
        /\ Step(r, "media", AfterMediaRejected(runs[r], "Media load error"))

\* The 5000 ms timer of extractMediaMetadata.
MediaTimeout ==
    \E r \in DOMAIN runs : Step(r, "media", AfterMediaRejected(runs[r], "Timeout"))

ExtractPDF == \E r \in DOMAIN runs : Step(r, "pdf", AfterPDF(runs[r]))

ExtractText == \E r \in DOMAIN runs : Step(r, "text", AfterText(runs[r]))

ExtractArchive == \E r \in DOMAIN runs : Step(r, "archive", AfterArchive(runs[r]))

CalculateSha256 == \E r \in DOMAIN runs : Step(r, "checksum", AfterChecksum(runs[r]))

CalculateMd5 == \E r \in DOMAIN runs : Step(r, "md5", AfterMd5(runs[r]))

CalculateEntropy == \E r \in DOMAIN runs : Step(r, "entropy", AfterEntropy(runs[r]))

DetectEncryption == \E r \in DOMAIN runs : Step(r, "encryption", AfterEncryption(runs[r]))

\* hasEmbeddedMetadata of an image waits for the EXIF callback once more.
HasMetadataExif ==
    \E r \in DOMAIN runs, elapsed \in ElapsedChoices :
        /\ runs[r].extractor = "image"
        /\ Step(r, "hasMetadata", AfterHasMetadata(runs[r], elapsed))

HasMetadataOther ==
    \E r \in DOMAIN runs, elapsed \in ElapsedChoices :
        /\ runs[r].extractor # "image"
        /\ Step(r, "hasMetadata", AfterHasMetadata(runs[r], elapsed))

\* The runs one event away from run.
Successors(run) ==
    LET when(cond, next) == IF cond THEN {next} ELSE {}
        at(st) == run.st = st
    IN  when(at("signature"), AfterSignature(run))
        \cup when(at("dimensions") /\ ImageDecodes(run.file), AfterImageOnload(run))
        \cup when(at("dimensions") /\ ~ImageDecodes(run.file),
                  AfterImageRejected(run, "Image load error"))
        \cup when(at("dimensions"), AfterImageRejected(run, "Image load timeout"))
        \cup when(at("exif"), AfterExifCallback(run))
        \cup when(at("pixels") /\ ImageDecodes(run.file), AfterPixelOnload(run))
        \cup when(at("pixels") /\ ~ImageDecodes(run.file), AfterPixelOnerror(run))
        \cup when(at("media") /\ MediaDecodes(run.file), AfterMediaLoaded(run))
        \cup when(at("media") /\ ~MediaDecodes(run.file),
                  AfterMediaRejected(run, "Media load error"))
        \cup when(at("media"), AfterMediaRejected(run, "Timeout"))
        \cup when(at("pdf"), AfterPDF(run))
        \cup when(at("text"), AfterText(run))
        \cup when(at("archive"), AfterArchive(run))
        \cup when(at("checksum"), AfterChecksum(run))
        \cup when(at("md5"), AfterMd5(run))
        \cup when(at("entropy"), AfterEntropy(run))
        \cup when(at("encryption"), AfterEncryption(run))
        \cup (IF at("hasMetadata")
              THEN {AfterHasMetadata(run, elapsed) : elapsed \in ElapsedChoices}
              ELSE {})

RECURSIVE ExtractResults(_)
\* The ways the promise of extractMetadata can settle for a run.
ExtractResults(run) ==
    IF run.st \in {"returned", "rejected"} THEN {run}
    ELSE UNION {ExtractResults(next) : next \in Successors(run)}

\* A whole call of extractMetadata, from its first await to its return.
ExtractMetadata ==
    \E r \in DOMAIN runs :
        \E result \in ExtractResults(runs[r]) :
            Step(r, "signature", result)

\* handleFileSelect after its await: setMetadata on a result, setError on a
\* rejection, setIsProcessing(false) in either case.
HandleFileSelectSettled ==
    \E r \in DOMAIN runs :
        /\ runs[r].st \in {"returned", "rejected"}
        /\ metadata' = IF runs[r].st = "returned" THEN <<runs[r].md>> ELSE metadata
        /\ error' = IF runs[r].st = "rejected" THEN FailureMessage ELSE error
        /\ isProcessing' = FALSE
        /\ runs' = [runs EXCEPT ![r].st = "completed"]
        /\ UNCHANGED call

\* The "Analyze Another File" button, rendered while metadata is set.
handleReset ==
    /\ metadata # <<>>
    /\ metadata' = <<>>
    /\ error' = NoError
    /\ UNCHANGED <<isProcessing, runs, call>>

PipelineStep ==
    \/ GetFileSignature
    \/ ImageOnload
    \/ ImageOnerror
    \/ ImageLoadTimeout
    \/ ExifCallback
    \/ PixelOnload
    \/ PixelOnerror
    \/ MediaOnloadedmetadata
    \/ MediaOnerror
    \/ MediaTimeout
    \/ ExtractPDF
    \/ ExtractText
    \/ ExtractArchive
    \/ CalculateSha256
    \/ CalculateMd5
    \/ CalculateEntropy
    \/ DetectEncryption
    \/ HasMetadataExif
    \/ HasMetadataOther

\* The App as the upload surface drives it: one run at a time, followed
\* await by await.
Next ==
    \/ FileUploadSelect
    \/ PipelineStep
    \/ HandleFileSelectSettled
    \/ handleReset

Spec == Init /\ [][Next]_vars

\* handleFileSelect called while runs are in flight; each call of
\* extractMetadata taken as one step (a run shares no state with another).
NextConcurrent ==
    \/ HandleFileSelectAnyTime
    \/ ExtractMetadata
    \/ HandleFileSelectSettled
    \/ handleReset

SpecConcurrent == Init /\ [][NextConcurrent]_vars

\* The steps that do not wait for the browser's decoders: reads of the file,
\* digests, the two timers and the continuation of handleFileSelect.
FairStep ==
    \/ GetFileSignature
    \/ ImageLoadTimeout
    \/ MediaTimeout
    \/ ExtractPDF
    \/ ExtractText
    \/ ExtractArchive
    \/ CalculateSha256
    \/ CalculateMd5
    \/ CalculateEntropy
    \/ DetectEncryption
    \/ HasMetadataOther
    \/ HandleFileSelectSettled

FairSpec == Spec /\ WF_vars(FairStep)

(***************************************************************************)
(* The helpers of the extractor called on their own, on arguments drawn     *)
(* from the sets below.                                                     *)
(***************************************************************************)
\* The largest of the small widths and heights.
MaxSide == 12

\* Widths and heights: the small ones, and those of a full-HD frame.
Sides == 1..MaxSide \cup {1080, 1920}

CallCalculateAspectRatio ==
    \E width \in Sides, height \in Sides :
        /\ call' = [fn |-> "calculateAspectRatio", width |-> width, height |-> height,
                    result |-> calculateAspectRatio(width, height)]
        /\ UNCHANGED <<metadata, isProcessing, error, runs>>

MaxBlobRun == 3

BlobBytes == {0, 9, 255}

Run(b, n) == [byte |-> b, count |-> n]

\* Blobs of a few bytes: the empty one, those of one run and those of two.
SmallBlobs ==
    {<<>>}
    \cup {<<Run(b, n)>> : b \in BlobBytes, n \in 1..MaxBlobRun}
    \cup {<<Run(pair[1], n), Run(pair[2], m)>> :
               pair \in {p \in BlobBytes \X BlobBytes : p[1] # p[2]},
               n \in 1..MaxBlobRun, m \in 1..MaxBlobRun}

\* Blobs around and beyond the sample cap: one run that ends just before, at
\* or after the cap, and a first mebibyte followed by more bytes.
LargeBlobs ==
    LET cap == EntropySampleCap
        heads == {<<Run(0, cap)>>,
                  <<Run(0, cap \div 2), Run(9, cap \div 2)>>,
                  <<Run(0, cap \div 4), Run(9, 3 * (cap \div 4))>>}
        tails == {<<>>, <<Run(5, cap \div 4)>>, <<Run(5, cap)>>, <<Run(5, cap), Run(7, cap)>>}
    IN  {<<Run(b, n)>> : b \in BlobBytes, n \in {cap - 1, cap + 1, 2 * cap}}
        \cup {head \o tail : head \in heads, tail \in tails}

\* The files calculateEntropy is called on, given by their runs of bytes.
Blobs == {[readable |-> TRUE, runs |-> rs] : rs \in SmallBlobs \cup LargeBlobs}

CallCalculateEntropy ==
    \E file \in Blobs :
        /\ call' = [fn |-> "calculateEntropy", file |-> file, result |-> calculateEntropy(file)]
        /\ UNCHANGED <<metadata, isProcessing, error, runs>>

\* Widths and heights of decoded images, below, at and above the cap of the
\* sampling canvas.
ImageSides == {1, 16, PixelSampleCap, 7 * PixelSampleCap}

\* How many colours a decoded image holds: around the thresholds of
\* estimateColorDepth, and more than the short-circuit.
ImageColors == {1, 2, 3, 16, 17, 256, 257, 2 * ColorShortCircuit}

\* The decoded images the pixel sampling is run on: drawings of every height
\* and number of colours, and, wider than the canvas, photographs of more
\* colours than the short-circuit.
SampledImages ==
    {img \in [width : ImageSides, height : ImageSides, colors : ImageColors] :
         img.width > PixelSampleCap => img.colors > ColorShortCircuit}

\* ctx.getImageData(0, 0, canvas.width, canvas.height) after drawImage:
\* canvas.width * canvas.height opaque pixels, which take the colours of the
\* image in turn, so that as many of them as fit are on the canvas.
getImageData(img) ==
    [i \in 1..(CanvasWidth(img) * CanvasHeight(img)) |->
        LET color == (i - 1) % img.colors
        IN  <<color \div 65536, (color \div 256) % 256, color % 256, 255>>] \o <<>>

\* The number of pixels sampled and the colorDepth set, for each image.
PixelSampleByImage ==
    [img \in SampledImages |->
        [pixels |-> Len(getImageData(img)),
         colorDepth |-> estimateColorDepth(getImageData(img))]] @@ <<>>

CallEstimateColorDepth ==
    \E img \in SampledImages :
        /\ call' = [fn |-> "estimateColorDepth", img |-> img,
                    pixels |-> PixelSampleByImage[img].pixels,
                    result |-> PixelSampleByImage[img].colorDepth]
        /\ UNCHANGED <<metadata, isProcessing, error, runs>>

NextCalls ==
    \/ CallCalculateAspectRatio
    \/ CallCalculateEntropy
    \/ CallEstimateColorDepth

SpecCalls == Init /\ [][NextCalls]_vars

(***************************************************************************)
(* The header walk of extractArchiveMetadata, one loop iteration a step.   *)
(***************************************************************************)
MaxZipEntries == 2

\* n as the two and the four bytes of a little-endian field.
Uint16Bytes(n) == <<n % 256, n \div 256>>

Uint32Bytes(n) == <<n % 256, (n \div 256) % 256, (n \div 65536) % 256, n \div 16777216>>

\* A local file header that declares a file name of e.name bytes, an extra
\* field of e.extra bytes, e.size bytes of data and e.total bytes once
\* uncompressed, with the e.follows bytes that do follow it.
LocalFileHeader(e) ==
    <<80, 75, 3, 4, 20, 0, 0, 0, 0, 0, 0, 0, 0, 0, 0, 0, 0, 0>>
    \o Uint32Bytes(e.size) \o Uint32Bytes(e.total)
    \o Uint16Bytes(e.name) \o Uint16Bytes(e.extra)
    \o [i \in 1..e.follows |-> 120]

\* Headers that declare what follows them, less than follows them, and far
\* more than any buffer holds.
ZipEntries ==
    {[name |-> 0, extra |-> 0, size |-> 0, total |-> 0, follows |-> 0],
     [name |-> 3, extra |-> 0, size |-> 5, total |-> 10, follows |-> 8],
     [name |-> 1, extra |-> 4, size |-> 0, total |-> 4, follows |-> 5],
     [name |-> 0, extra |-> 0, size |-> 0, total |-> 7, follows |-> 2],
     [name |-> 65535, extra |-> 65535, size |-> 2000000000, total |-> 1, follows |-> 0]}

RECURSIVE ZipBytes(_)
ZipBytes(entries) ==
    IF entries = <<>> THEN <<>>
    ELSE LocalFileHeader(Head(entries)) \o ZipBytes(Tail(entries))

\* What ends a buffer: nothing, one byte, a central directory record.
ZipTails == {<<>>, <<120>>, <<80, 75, 1, 2>> \o [i \in 1..42 |-> 0]}

ZipBuffers ==
    {ZipBytes(entries) \o tail :
         entries \in UNION {[1..n -> ZipEntries] : n \in 0..MaxZipEntries},
         tail \in ZipTails}

\* The walk is between two tests of the loop condition.
ZipWalking == call.fn = "extractArchiveMetadata" /\ call.st = "loop"

\* while (offset < arrayBuffer.byteLength - 30), with the buffer end as limit
ZipLoopToBufferEnd(bytes, offset) == offset < Len(bytes)

\* while (offset < arrayBuffer.byteLength - 30)
ZipLoopCondition(bytes, offset) == offset < Len(bytes) - ZipHeaderSize

\* The read of the buffer and the test of the signature at offset 0; a
\* RangeError is caught by the catch of the function.
CallExtractArchiveMetadata ==
    \E bytes \in ZipBuffers :
        /\ ~ZipWalking
        /\ call' = [fn |-> "extractArchiveMetadata", bytes |-> bytes, offset |-> 0,
                    uncompressedSize |-> 0, read |-> <<>>,
                    st |-> IF ThrowsRangeError(bytes, 0, 4) THEN "caught"
                           ELSE IF getUint32(bytes, 0) = ZipMagic THEN "loop" ELSE "ended"]
        /\ UNCHANGED <<metadata, isProcessing, error, runs>>

\* One test of the loop condition and, if it holds, one run of the loop
\* body; read lists the offsets at which a header was read.
ZipWalkStep ==
    /\ ZipWalking
    /\ LET bytes == call.bytes
           offset == call.offset
       IN  call' =
             IF ~ZipLoopCondition(bytes, offset) THEN [call EXCEPT !.st = "ended"]
             ELSE IF ThrowsRangeError(bytes, offset, 4)
             THEN [call EXCEPT !.st = "caught", !.read = Append(@, offset)]
             ELSE IF getUint32(bytes, offset) # ZipMagic THEN [call EXCEPT !.st = "ended"]
             ELSE IF ThrowsRangeError(bytes, offset, ZipHeaderSize)
             THEN [call EXCEPT !.st = "caught", !.read = Append(@, offset)]
             ELSE [call EXCEPT
                     !.offset = offset + ZipHeaderSize + getUint16(bytes, offset + 26)
                                + getUint16(bytes, offset + 28) + getUint32(bytes, offset + 18),
                     !.uncompressedSize = @ + getUint32(bytes, offset + 22),
                     !.read = Append(@, offset)]
    /\ UNCHANGED <<metadata, isProcessing, error, runs>>

NextArchive ==
    \/ CallExtractArchiveMetadata
    \/ ZipWalkStep

SpecArchive == Init /\ [][NextArchive]_vars

(***************************************************************************)
(* Properties.                                                             *)
(***************************************************************************)
\* C1: once every submitted run has finished, the record on display is the
\* record of the file submitted last, also when the runs overlapped and
\* whichever of them settled first.
C1_LastSubmittedFileIsShown ==
    (Len(runs) >= 2 /\ Idle /\ metadata # <<>>) => metadata[1] = runs[Len(runs)].md

\* C2: every run that was started eventually settles: no await of
\* extractMetadata stays pending for ever, also when the decoders never
\* call back.
C2_EveryRunSettles ==
    (Len(runs) > 0)
        ~> (Len(runs) > 0 /\ runs[1].st \in {"returned", "rejected", "completed"})

\* C3: a run on a file whose reads all fail never resolves to a record.
C3_UnreadableFileGivesNoRecord ==
    \A r \in DOMAIN runs : ReadFails(runs[r].file) => runs[r].st # "returned"

\* C4: a run on a readable file never rejects, and the record it returns has
\* every identity field and every universal field, whatever the format
\* extractor did; bytes that are no image under an image MIME type give such
\* a record without dimensions.
C4_ReadableFileGivesFullRecord ==
    \A r \in DOMAIN runs :
        ~ReadFails(runs[r].file) =>
            /\ runs[r].st # "rejected"
            /\ runs[r].st \in {"returned", "completed"} =>
                /\ (IdentityFields \cup UniversalFields) \subseteq DOMAIN runs[r].md
                /\ (runs[r].extractor = "image" /\ ~ImageDecodes(runs[r].file))
                       => ~Has(runs[r].md, "dimensions")

\* C4 witness: a readable file of image type whose bytes are no image was
\* extracted to a full record without dimensions.
C4_CorruptImageReturned ==
    \E r \in DOMAIN runs :
        /\ runs[r].st = "returned"
        /\ runs[r].file = F_broken
        /\ runs[r].log # <<>>
        /\ ~Has(runs[r].md, "dimensions")
        /\ (IdentityFields \cup UniversalFields) \subseteq DOMAIN runs[r].md

\* C5: in a returned record the fields of the analyzers that read the file
\* are absent when the read failed, and hasMetadata is absent when the file
\* is of no kind the embedded-metadata check looks into or the check failed:
\* no field holds a placeholder.
C5_NoPlaceholderFields ==
    \A r \in DOMAIN runs :
        runs[r].st \in {"returned", "completed"} =>
            /\ ReadFails(runs[r].file) =>
                   \A f \in {"fileSignature", "checksum", "md5", "entropy", "isEncrypted"} :
                       ~Has(runs[r].md, f)
            /\ (ReadFails(runs[r].file) \/ runs[r].extractor \notin {"image", "pdf"})
                   => ~Has(runs[r].md, "hasMetadata")

\* C6: whenever no run is in flight, the App does not show a record and the
\* failure message together.
C6_NeverRecordAndError ==
    Idle => ~(metadata # <<>> /\ error # NoError)

\* C6 witness: a run on a file whose reads fail has finished after an
\* earlier run gave a record, nothing is in flight, and a record is shown
\* without the failure message.
C6_IdleAfterFailedReads ==
    /\ Len(runs) = 2
    /\ Idle
    /\ ~ReadFails(runs[1].file)
    /\ ReadFails(runs[2].file)
    /\ metadata # <<>>
    /\ error = NoError

\* C7: the extractor a run takes is the one of the first matching rule of:
\* image/ prefix; audio/ or video/ prefix; PDF MIME type or .pdf extension;
\* text/ prefix or .txt / .md extension; zip or archive in the MIME type or
\* .zip / .rar extension; else none.
C7_DispatchFollowsTheRules ==
    \A r \in DOMAIN runs :
        LET file == runs[r].file
            rule == IF StartsWith(file.type, S_image) THEN "image"
                    ELSE IF StartsWith(file.type, S_audio) \/ StartsWith(file.type, S_video)
                         THEN "media"
                    ELSE IF file.type = S_pdf \/ EndsWith(file.name, <<".", "p", "d", "f">>)
                         THEN "pdf"
                    ELSE IF \/ StartsWith(file.type, S_text)
                            \/ EndsWith(file.name, S_dotTxt)
                            \/ EndsWith(file.name, S_dotMd) THEN "text"
                    ELSE IF \/ Includes(file.type, S_zip)
                            \/ Includes(file.type, S_archive)
                            \/ EndsWith(file.name, S_dotZip)
                            \/ EndsWith(file.name, S_dotRar) THEN "archive"
                    ELSE "none"
        IN  runs[r].extractor # "pending" => runs[r].extractor = rule

\* C8: a digest stored in checksum is a SHA-256 digest and a digest stored
\* in md5 is an MD5 digest.
C8_DigestsUseTheirAlgorithm ==
    \A r \in DOMAIN runs :
        /\ (Has(runs[r].md, "checksum") /\ runs[r].md.checksum # <<>>)
               => runs[r].md.checksum[1].algorithm = "SHA-256"
        /\ (Has(runs[r].md, "md5") /\ runs[r].md.md5 # <<>>)
               => runs[r].md.md5[1].algorithm = "MD5"

\* C9: two runs that read identical bytes store the same checksum and the
\* same md5, whatever the names, MIME types and time stamps of their files
\* and whatever ran before them.
C9_DigestsDependOnBytesOnly ==
    \A r1, r2 \in DOMAIN runs :
        (/\ ~ReadFails(runs[r1].file)
         /\ ~ReadFails(runs[r2].file)
         /\ runs[r1].file.bytes = runs[r2].file.bytes) =>
            \A f \in {"checksum", "md5"} :
                (Has(runs[r1].md, f) /\ Has(runs[r2].md, f))
                    => runs[r1].md[f] = runs[r2].md[f]

\* C9 witness: two finished runs on files of different name and MIME type
\* with identical bytes hold the same two digests.
C9_SameBytesUnderTwoNames ==
    \E r1, r2 \in DOMAIN runs :
        /\ runs[r1].file = F_notes
        /\ runs[r2].file = F_bin
        /\ runs[r1].st = "completed"
        /\ runs[r2].st = "completed"
        /\ runs[r1].md.checksum # <<>>
        /\ runs[r1].md.checksum = runs[r2].md.checksum
        /\ runs[r1].md.md5 = runs[r2].md.md5

\* C10: once the media load has timed out or raised an error, the record
\* never holds duration, dimensions, aspectRatio or bitrate, and the run is
\* past the media extractor, at the universal analyzers or returned.
C10_MediaFailureLeavesFieldsAbsent ==
    \A r \in DOMAIN runs :
        (\E i \in DOMAIN runs[r].log : runs[r].log[i] \in {"Timeout", "Media load error"}) =>
            /\ \A f \in {"duration", "dimensions", "aspectRatio", "bitrate"} :
                   ~Has(runs[r].md, f)
            /\ runs[r].st \in {"checksum", "md5", "entropy", "encryption", "hasMetadata",
                               "returned", "completed"}

\* C10 witness: a run whose media load timed out has returned a record with
\* the universal fields and none of the media fields.
C10_ReturnedAfterMediaTimeout ==
    \E r \in DOMAIN runs :
        /\ runs[r].st = "returned"
        /\ runs[r].log = <<"Timeout">>
        /\ UniversalFields \subseteq DOMAIN runs[r].md
        /\ ~Has(runs[r].md, "duration")

\* C12: for positive integers width and height calculateAspectRatio returns
\* "W:H" where W = width / g and H = height / g for the greatest common
\* divisor g, so that W and H are coprime and W * height = H * width;
\* (1920, 1080) gives "16:9" and (1, 1) gives "1:1".
C12_AspectRatioIsReduced ==
    call.fn = "calculateAspectRatio" =>
        LET width == call.width
            height == call.height
            text == call.result
            colons == {i \in 1..Len(text) : text[i] = ":"}
            colon == CHOOSE i \in colons : TRUE
            DigitValue(c) == CHOOSE d \in 0..9 : Digits[d + 1] = c
            Value(s) ==
                LET pow[k \in 0..Len(s)] == IF k = 0 THEN 1 ELSE 10 * pow[k - 1]
                    sum[k \in 0..Len(s)] ==
                        IF k = 0 THEN 0
                        ELSE sum[k - 1] + DigitValue(s[k]) * pow[Len(s) - k]
                IN  sum[Len(s)]
            IsNumeral(s) ==
                /\ Len(s) >= 1
                /\ \A k \in 1..Len(s) : \E d \in 0..9 : Digits[d + 1] = s[k]
                /\ (Len(s) > 1 => s[1] # "0")
            left == SubSeq(text, 1, colon - 1)
            right == SubSeq(text, colon + 1, Len(text))
            Divides(d, n) == n % d = 0
            common == {d \in 1..Min(width, height) : Divides(d, width) /\ Divides(d, height)}
            g == CHOOSE d \in common : \A e \in common : e <= d
        IN  /\ Cardinality(colons) = 1
            /\ IsNumeral(left) /\ IsNumeral(right)
            /\ Value(left) = width \div g
            /\ Value(right) = height \div g
            /\ \A d \in 2..Min(Value(left), Value(right)) :
                   ~(Divides(d, Value(left)) /\ Divides(d, Value(right)))
            /\ Value(left) * height = Value(right) * width
            /\ (width = 1920 /\ height = 1080 => text = <<"1", "6", ":", "9">>)
            /\ (width = 1 /\ height = 1 => text = <<"1", ":", "1">>)

\* calculateAspectRatio has been called with 1920 and 1080 and has returned
\* "16:9".
C12_FullHdIsSixteenToNine ==
    /\ call.fn = "calculateAspectRatio"
    /\ call.width = 1920 /\ call.height = 1080
    /\ call.result = <<"1", "6", ":", "9">>

\* C11: when the buffer of a file given to the archive extractor does not
\* start with the four bytes 50 4B 03 04 (the ZIP magic, little-endian), be
\* it shorter than four bytes, the run goes on without compressionRatio and
\* its promise is never rejected.
C11_NoMagicNoRatio ==
    \A r \in DOMAIN runs :
        LET run == runs[r]
            bytes == run.file.bytes
            magic == Len(bytes) >= 4 /\ SubSeq(bytes, 1, 4) = <<80, 75, 3, 4>>
        IN  (run.extractor = "archive" /\ ~ReadFails(run.file) /\ ~magic) =>
                /\ run.st \in {"archive", "checksum", "md5", "entropy", "encryption",
                               "hasMetadata", "returned", "completed"}
                /\ ~Has(run.md, "compressionRatio")

\* The two-byte stub.zip went through the archive extractor, which logged
\* its error, and the record was returned with the universal fields.
C11_ShortArchiveReturned ==
    \E r \in DOMAIN runs :
        /\ runs[r].file = F_stub
        /\ runs[r].extractor = "archive"
        /\ runs[r].st = "returned"
        /\ runs[r].log = <<"Error extracting archive metadata">>
        /\ UniversalFields \subseteq DOMAIN runs[r].md
        /\ ~Has(runs[r].md, "compressionRatio")

\* C13: isExecutable is true if and only if the file name has an extension,
\* the text after its last '.', and that extension in lower case is in the
\* list of executable extensions; bytes and MIME type play no part.
C13_ExecutableIffListedExtension ==
    \A r \in DOMAIN runs :
        LET name == runs[r].file.name
            dots == {i \in 1..Len(name) : name[i] = "."}
            last == CHOOSE i \in dots : \A j \in dots : j <= i
            listed == /\ dots # {}
                      /\ ToLowerCase(SubSeq(name, last + 1, Len(name)))
                            \in ExecutableExtensions
        IN  Has(runs[r].md, "isExecutable") => (runs[r].md.isExecutable <=> listed)

\* C14: the entropy of the empty buffer and of every buffer whose bytes are
\* all equal, whatever its length, is 0, and the entropy depends on the first
\* min(size, 1 MiB) bytes only: two buffers that agree on them have the same
\* entropy, so the bytes past 1 MiB never change it (a half of zeros and a
\* half of nines gives 1.00 with or without bytes behind them, three zeros
\* and a nine give 0.81).
C14_EntropyOfFirstMebibyte ==
    call.fn = "calculateEntropy" =>
        LET content == call.file.runs
            cap == EntropySampleCap
            half == <<Run(0, cap \div 2), Run(9, cap \div 2)>>
        IN  /\ (\A i, j \in 1..Len(content) : content[i].byte = content[j].byte)
                   => call.result = 0
            /\ \A other \in Blobs :
                   SliceRuns(other.runs, cap) = SliceRuns(content, cap)
                       => calculateEntropy(other) = call.result
            /\ SliceRuns(content, cap) = half => call.result = 100
            /\ content = <<Run(0, 3), Run(9, 1)>> => call.result = 81
            /\ call.result \in 0..800

\* C14 witness: a mebibyte of zeros and nines in equal parts, followed by a
\* mebibyte of fives, has entropy 1.00.
C14_BytesPastTheCapIgnored ==
    /\ call.fn = "calculateEntropy"
    /\ call.file.runs = <<Run(0, EntropySampleCap \div 2), Run(9, EntropySampleCap \div 2),
                          Run(5, EntropySampleCap)>>
    /\ call.result = 100

\* C15: the language of a text is found by counting, for English, French,
\* German, Spanish and Italian in this order, the whole words among the
\* first 1000 characters (letters taken in lower case) that are stop words
\* of the language; it is the first language whose count is the greatest
\* when that count exceeds 3, and "Unknown" otherwise.  A whole word is a
\* stop word with no letter, digit or underscore next to it on either side,
\* accented letters being letters.
C15_LanguageByWholeWordCount ==
    \A r \in DOMAIN runs :
        LET run == runs[r]
            sample == LanguageSample(Utf8Decode(run.file.bytes))
            letter(c) == IsWordChar(c) \/ (c >= 192 /\ c <= 255 /\ c \notin {215, 247})
            inWord(j) == j >= 1 /\ j <= Len(sample) /\ letter(sample[j])
            wholeWord(word, j) ==
                /\ MatchAt(sample, word, j)
                /\ ~inWord(j - 1)
                /\ ~inWord(j + Len(word))
            count(k) ==
                Cardinality({j \in 1..Len(sample) :
                    \E w \in 1..Len(LanguagePatterns[k].words) :
                        wholeWord(LanguagePatterns[k].words[w], j)})
            counts == [k \in 1..Len(LanguagePatterns) |-> count(k)] \o <<>>
            best == CHOOSE k \in 1..Len(counts) :
                        /\ \A j \in 1..Len(counts) : counts[j] <= counts[k]
                        /\ \A j \in 1..(k - 1) : counts[j] < counts[k]
            expected == IF counts[best] > LanguageThreshold
                        THEN LanguagePatterns[best].language ELSE "Unknown"
        IN  (run.extractor = "text" /\ Has(run.md, "language")) => run.md.language = expected

\* C16: in every run the fields are written stage by stage: the identity
\* fields, then fileSignature, then the fields of the one format extractor
\* the dispatch chose (none when it chose none), then checksum, md5, entropy,
\* isExecutable, isEncrypted, hasMetadata and last processingTime.  A step
\* writes no field of a stage before one already written, overwrites
\* nothing, and writes a field only when all the stages before it are done;
\* a run is returned only with processingTime set, and the record of a
\* returned run never changes.
C16_StagesInOrder ==
    [][\A r \in DOMAIN runs :
          LET before == runs[r].md
              after == runs'[r].md
              written == {f \in DOMAIN after : f \notin DOMAIN before \/ after[f] # before[f]}
              order == <<"fileSignature", "format", "checksum", "md5", "entropy",
                         "isExecutable", "isEncrypted", "hasMetadata", "processingTime">>
              stage(f) == IF f \in IdentityFields THEN 0
                          ELSE IF f \in UniversalFields
                          THEN CHOOSE k \in 1..Len(order) : order[k] = f
                          ELSE 2
              formatFields ==
                  [image |-> {"dimensions", "aspectRatio", "exifData", "dpi", "creator",
                              "subject", "keywords", "hasAlpha", "colorDepth"},
                   media |-> {"duration", "dimensions", "aspectRatio", "bitrate"},
                   pdf |-> {"subject", "creator", "keywords", "pageCount", "wordCount",
                            "characterCount"},
                   text |-> {"wordCount", "characterCount", "lineCount", "encoding",
                             "language"},
                   archive |-> {"compressionRatio"},
                   none |-> {}]
          IN  /\ DOMAIN before \subseteq DOMAIN after
              /\ written \cap DOMAIN before = {}
              /\ \A f \in written :
                     /\ \A g \in DOMAIN before : stage(g) <= stage(f)
                     /\ \A g \in IdentityFields \cup UniversalFields :
                            stage(g) < stage(f) => g \in DOMAIN after
                     /\ stage(f) = 2 => f \in formatFields[FormatExtractor(runs[r].file)]
              /\ runs'[r].st \in {"returned", "completed"} => "processingTime" \in DOMAIN after
              /\ runs[r].st \in {"returned", "completed"} => after = before
      ]_vars

\* C16 witness: paper.pdf has been returned with the fields of every stage,
\* those of the PDF extractor among them.
C16_PdfReturnedWithAllStages ==
    \E r \in DOMAIN runs :
        /\ runs[r].file = F_paper
        /\ runs[r].st = "returned"
        /\ IdentityFields \cup UniversalFields \cup {"pageCount", "wordCount"}
               \subseteq DOMAIN runs[r].md

\* C17: for a buffer that starts with the ZIP magic the archive extractor
\* visits the consecutive local file headers from offset 0: a header is
\* visited when its 30 bytes lie within the buffer and begin with the magic,
\* its uncompressed size (offset + 22) is added to the total and the walk
\* goes on 30 + file name length + extra field length + compressed size
\* (offset + 18) further; it stops at the first position where this fails.
\* compressionRatio is present exactly when the total is positive, and is
\* then the file size over the total, rounded to two decimals.
C17_RatioFromLocalHeaders ==
    \A r \in DOMAIN runs :
        LET run == runs[r]
            bytes == run.file.bytes
            headerAt(offset) ==
                /\ offset + ZipHeaderSize <= Len(bytes)
                /\ getUint32(bytes, offset) = ZipMagic
            RECURSIVE total(_)
            total(offset) ==
                IF headerAt(offset)
                THEN getUint32(bytes, offset + 22)
                     + total(offset + ZipHeaderSize + getUint16(bytes, offset + 26)
                             + getUint16(bytes, offset + 28) + getUint32(bytes, offset + 18))
                ELSE 0
        IN  (/\ run.extractor = "archive"
             /\ ~ReadFails(run.file)
             /\ Len(bytes) >= 4
             /\ getUint32(bytes, 0) = ZipMagic
             /\ run.st \in {"checksum", "md5", "entropy", "encryption", "hasMetadata",
                            "returned", "completed"}) =>
                /\ Has(run.md, "compressionRatio") <=> total(0) > 0
                /\ Has(run.md, "compressionRatio") =>
                       run.md.compressionRatio = RoundDiv(Len(bytes) * 100, total(0))

\* C18: isEncrypted of a file whose bytes can be read is true exactly when
\* its first four bytes are 50 4B 03 04, 37 7A BC AF or 52 61 72 21, or its
\* entropy (that of its first mebibyte at most, as reported in the record)
\* exceeds 7.5; a file of fewer than four bytes is flagged by the entropy
\* alone.
C18_EncryptedIffSignatureOrEntropy ==
    \A r \in DOMAIN runs :
        LET run == runs[r]
            bytes == run.file.bytes
            listed == {<<80, 75, 3, 4>>, <<55, 122, 188, 175>>, <<82, 97, 114, 33>>}
            signature == Len(bytes) >= 4 /\ SubSeq(bytes, 1, 4) \in listed
        IN  (~ReadFails(run.file) /\ Has(run.md, "isEncrypted")) =>
                /\ run.md.isEncrypted <=> (signature \/ run.md.entropy > 750)
                /\ Len(bytes) < 4 => (run.md.isEncrypted <=> run.md.entropy > 750)
                /\ run.md.entropy = calculateEntropy(run.file)

\* C18 witness: random.dat, every byte value once, starts with no listed
\* signature, has entropy 8.00 and is returned as encrypted; data.zip is
\* flagged by its signature with an entropy below the threshold.
C18_FlaggedByEntropyAlone ==
    \E r \in DOMAIN runs :
        /\ runs[r].file = F_random
        /\ runs[r].st = "returned"
        /\ runs[r].md.entropy = 800
        /\ runs[r].md.isEncrypted
        /\ IsEncryptedByFile[F_zip] /\ EntropyByFile[F_zip] <= 750
        /\ IsEncryptedByFile[F_seven] /\ ~IsEncryptedByFile[F_stub]

\* C19: when a run has returned, every object URL it created (for
\* getImageDimensions, for the pixel sampling and for the media element) has
\* been revoked, whichever way its loads ended.
C19_EveryObjectUrlRevoked ==
    \A r \in DOMAIN runs :
        runs[r].st \in {"returned", "rejected", "completed"} => runs[r].urls = 0

\* C20: isProcessing is true in every state in which a call of
\* handleFileSelect has started its extraction and not yet completed, and
\* false when none is in flight, also when two runs overlap.
C20_ProcessingWhileInFlight ==
    isProcessing <=> \E r \in DOMAIN runs : runs[r].st # "completed"

\* C21: the pixel sample is at most 100 x 100 = 10000 pixels, so
\* estimateColorDepth as extractImageMetadata calls it never sees more than
\* 10000 distinct colours: the colorDepth is 1, 4, 8 or 16 (1 up to 2
\* colours on the canvas, 4 up to 16, 8 up to 256, 16 above), never 24,
\* however large the image and however many colours it holds.
C21_ColorDepthBelowTwentyFour ==
    call.fn = "estimateColorDepth" =>
        LET seen == IF call.pixels < call.img.colors THEN call.pixels ELSE call.img.colors
        IN  /\ call.pixels <= 10000
            /\ seen <= 10000
            /\ call.result \in {1, 4, 8, 16}
            /\ call.result = (IF seen <= 2 THEN 1 ELSE IF seen <= 16 THEN 4
                              ELSE IF seen <= 256 THEN 8 ELSE 16)

\* C21 witness: an image of 700 x 700 pixels with more than 65536 colours
\* is sampled on 10000 pixels and gets colorDepth 16.
C21_LargeImageSampled ==
    /\ call.fn = "estimateColorDepth"
    /\ call.img = [width |-> 700, height |-> 700, colors |-> 131072]
    /\ call.pixels = 10000
    /\ call.result = 16

\* C22: the ZIP header walk terminates for every buffer.  Every header is
\* read inside the buffer (offset + 30 <= byteLength), and nothing but the
\* signature test on a buffer of less than 4 bytes throws; at most
\* byteLength / 30 headers are read, whatever lengths they declare; the
\* total at the end is the one of the walk taken as a whole; and every loop
\* iteration either leaves the loop or moves the cursor on by at least 30.
C22_HeaderWalkTerminates ==
    /\ [](call.fn = "extractArchiveMetadata" =>
            /\ \A k \in 1..Len(call.read) : call.read[k] + 30 <= Len(call.bytes)
            /\ call.st = "caught" => Len(call.bytes) < 4
            /\ Len(call.read) <= Len(call.bytes) \div 30
            /\ 30 * Len(call.read) <= call.offset
            /\ call.st = "ended" => call.uncompressedSize = ZipWalk(call.bytes, 0, 0))
    /\ [][ZipWalkStep =>
            \/ call'.st # "loop"
            \/ /\ call'.offset >= call.offset + 30
               /\ Len(call'.read) = Len(call.read) + 1]_vars

\* C22 witness: a walk has ended after two headers, the second of which
\* declared lengths that lead far past the end of the buffer.
C22_WalkEndedPastBuffer ==
    /\ call.fn = "extractArchiveMetadata"
    /\ call.st = "ended"
    /\ call.read = <<0, 38>>
    /\ call.offset > 2000000000
    /\ Len(call.bytes) = 114

=============================================================================
